---- MODULE Spec2Model ----
(***************************************************************************)
(* dbfriend-cloud: change detection (GeometryService.monitor_dataset_      *)
(* changes), the confidence scorer, and the review queue (api/v1/diffs).   *)
(*                                                                         *)
(* Digests are modelled as injective: a geometry hash is the name of the   *)
(* geometry, an attributes hash the name of the attribute set, and the     *)
(* composite hash the pair of the two.  Confidence scores are in           *)
(* thousandths (0.75 is 750).                                              *)
(***************************************************************************)
EXTENDS Integers, Sequences, FiniteSets, TLC

\* ------------------------------------------------------------------ bounds
MaxRows == 2          \* rows of one remote table
MaxRuns == 3          \* change-detection runs in one behaviour
MaxReviews == 2       \* review requests in one behaviour
MaxBatch == 2         \* diff ids in one batch review
MaxTime == 7          \* the clock stops here
MaxChecks == 2        \* quality-check requests and cycles in one behaviour
CheckInterval == 2    \* check_interval_minutes of the datasets
MaxResets == 2        \* process starts and resets in one behaviour
MaxTicks == 3         \* ticks, worker cycles and requests in one behaviour
MaxSchedulerTime == 4 \* last minute of a behaviour of the scheduler

\* ------------------------------------------------- configuration constants
max_coordinate_magnitude == 20000000
min_polygon_points == 4
min_linestring_points == 2
large_area_threshold == 1000000
large_length_threshold == 10000000
invalid_geometry_confidence == 950
non_simple_geometry_confidence == 900
topologically_unclean_confidence == 850
zero_area_polygon_confidence == 900
zero_length_line_confidence == 900
large_geometry_confidence == 700
degenerate_geometry_confidence == 950
insufficient_points_confidence == 900
suspicious_coordinates_confidence == 750
default_confidence == 500
complex_geometry_confidence_reduction == 9
very_complex_geometry_confidence_reduction == 8
complex_geometry_point_threshold == 100
very_complex_geometry_point_threshold == 1000
problematic_geometry_confidence_threshold == 750
deleted_confidence_score == 1000

\* A NULL column: of a string, and of an id or a timestamp (ids and
\* timestamps start at 1).
NULL == "NULL"
NONE == 0

\* --------------------------------------------------- the remote table rows
\* A coordinate extreme as the reader returns it: a number, NaN, an infinity,
\* or None.
Num(v) == [kind |-> "num", v |-> v]

\* The server-derived scalars of the remote query, per geometry.
\* is_topologically_clean is ST_IsValid AND ST_IsSimple.
Scalars(valid, simple, type, area, length, npoints, maxc) ==
    [is_valid |-> valid, is_simple |-> simple,
     is_topologically_clean |-> valid /\ simple,
     geom_type |-> type, geom_area |-> area, geom_length |-> length,
     num_points |-> npoints,
     min_x |-> Num(0), max_x |-> Num(maxc), min_y |-> Num(0), max_y |-> Num(maxc)]

\* The geometries a remote table may hold, named by their digest.
external_query(g) ==
    CASE g = "gPoly"   -> Scalars(TRUE, TRUE, "ST_Polygon", 1, 4, 5, 1)
      [] g = "gLine"   -> Scalars(TRUE, TRUE, "ST_LineString", 0, 2, 2, 1)
      [] g = "gPoint"  -> Scalars(TRUE, TRUE, "ST_Point", 0, 0, 1, 0)
      [] g = "gBowtie" -> Scalars(FALSE, FALSE, "ST_Polygon", 0, 4, 5, 1)
      [] g = "gStub"   -> Scalars(TRUE, TRUE, "ST_LineString", 0, 1, 1, 1)
      [] g = "gHuge"   -> Scalars(TRUE, TRUE, "ST_Polygon", 2000000, 6000, 5, 1500)
      [] g = "gFar"    -> Scalars(TRUE, TRUE, "ST_Polygon", 1, 4, 5, 30000000)
      [] g = "gFarDense" -> Scalars(TRUE, TRUE, "ST_Polygon", 1, 4, 150, 30000000)

Datasets == {"d1", "d2"}

\* The feature versions a remote table may hold: a geometry and an attribute
\* set, each named by its digest.  gPoly is an unremarkable polygon, gBowtie
\* an invalid self-intersecting one.
Row(g, a) == [geometry_hash |-> g, attributes_hash |-> a]

RowKinds ==
    <<Row("gPoly", "a1"), Row("gPoly", "a2"), Row("gBowtie", "a1")>>

KindIds == 1..Len(RowKinds)

\* A remote table: how many rows of each kind it holds (rows with a null
\* geometry are filtered out by the query and are not counted).
TableSize(t) == t[1] + t[2] + t[3]

Tables == {t \in [KindIds -> 0..MaxRows] : TableSize(t) <= MaxRows}

EmptyTable == [k \in KindIds |-> 0]

\* The tables of the first dataset range over Tables.  The second dataset is
\* there to show that a run reads and writes its own dataset only: its table
\* is empty or holds one row.
TablesOf(d) ==
    IF d = "d1" THEN Tables
    ELSE {EmptyTable, [EmptyTable EXCEPT ![1] = 1], [EmptyTable EXCEPT ![3] = 1]}

\* The rows the query returns, one per table row.
RECURSIVE RowsFrom(_, _)
RowsFrom(t, k) ==
    IF k > Len(RowKinds) THEN <<>>
    ELSE [i \in 1..t[k] |-> RowKinds[k]] \o RowsFrom(t, k + 1)

external_rows(t) == RowsFrom(t, 1)

\* ------------------------------------------------------------- the hasher
compute_composite_hash(geometry_hash, attributes_hash) ==
    <<geometry_hash, attributes_hash>>

\* ----------------------------------------------------- confidence scoring
IsPolygonType(t) == t \in {"ST_Polygon", "ST_MultiPolygon"}
IsLineType(t) == t \in {"ST_LineString", "ST_MultiLineString"}
IsPointType(t) == t \in {"ST_Point", "ST_MultiPoint"}

Abs(x) == IF x < 0 THEN -x ELSE x
Max(a, b) == IF a >= b THEN a ELSE b
Min(a, b) == IF a <= b THEN a ELSE b

Coords(row) == {row.min_x, row.max_x, row.min_y, row.max_y}

\* coord != coord or coord == inf or coord == -inf
IsNanOrInf(c) == c.kind \in {"nan", "inf", "-inf"}

\* abs(coord) > bound   (False for NaN, True for an infinity)
ExceedsBounds(c) ==
    CASE c.kind = "num" -> Abs(c.v) > max_coordinate_magnitude
      [] c.kind \in {"inf", "-inf"} -> TRUE
      [] OTHER -> FALSE

TierConfidence(row) ==
    IF ~row.is_valid THEN invalid_geometry_confidence
    ELSE IF ~row.is_simple THEN non_simple_geometry_confidence
    ELSE IF ~row.is_topologically_clean THEN topologically_unclean_confidence
    ELSE IF row.geom_area <= 0 /\ IsPolygonType(row.geom_type)
        THEN zero_area_polygon_confidence
    ELSE IF row.geom_length <= 0 /\ IsLineType(row.geom_type)
        THEN zero_length_line_confidence
    ELSE IF row.geom_area > large_area_threshold THEN large_geometry_confidence
    ELSE IF row.geom_length > large_length_threshold THEN large_geometry_confidence
    ELSE IF row.num_points <= 1 THEN degenerate_geometry_confidence
    ELSE IF IsPolygonType(row.geom_type) /\ row.num_points < min_polygon_points
        THEN insufficient_points_confidence
    ELSE IF IsLineType(row.geom_type) /\ row.num_points < min_linestring_points
        THEN insufficient_points_confidence
    ELSE default_confidence

_calculate_confidence_score(row) ==
    LET tier == TierConfidence(row)
        bounded == IF \E c \in Coords(row) : c.kind # "none" /\ ExceedsBounds(c)
                   THEN Max(tier, suspicious_coordinates_confidence)
                   ELSE tier
        scaled == IF row.num_points > very_complex_geometry_point_threshold
                  THEN (bounded * very_complex_geometry_confidence_reduction) \div 10
                  ELSE IF row.num_points > complex_geometry_point_threshold
                  THEN (bounded * complex_geometry_confidence_reduction) \div 10
                  ELSE bounded
    IN  Max(0, Min(1000, scaled))

_is_geometry_problematic(row) ==
    IF ~row.is_valid THEN TRUE
    ELSE IF ~row.is_simple THEN TRUE
    ELSE IF ~row.is_topologically_clean THEN TRUE
    ELSE IF IsPolygonType(row.geom_type) /\ row.geom_area <= 0 THEN TRUE
    ELSE IF IsLineType(row.geom_type) /\ row.geom_length <= 0 THEN TRUE
    ELSE IF row.num_points <= 1 /\ ~IsPointType(row.geom_type) THEN TRUE
    ELSE IF \E c \in Coords(row) : c.kind # "none" /\ IsNanOrInf(c) THEN TRUE
    ELSE _calculate_confidence_score(row) >= problematic_geometry_confidence_threshold

\* ----------------------------------------------------------------- state
VARIABLES
    snapshots,   \* geometry_snapshots, in insertion order; id = position
    diffs,       \* geometry_diffs, in insertion order; id = position
    seen,        \* per dataset: its last successful run, if any (table read, baseline or not)
    lastRun,     \* what the most recent change-detection run did
    lastReview,  \* what the most recent review request did
    runs,        \* change-detection runs so far
    reviews,     \* review requests so far
    datasets,    \* the datasets table: per dataset its monitoring fields
    spatial_checks,        \* the findings, in insertion order; id = position
    QUALITY_CHECK_STATUS,  \* the in-memory status map of the quality checks
    tasks,       \* background tasks and timers that have not finished
    clock,       \* the time, in minutes
    log          \* what the most recent operation of the service did

vars == <<snapshots, diffs, seen, lastRun, lastReview, runs, reviews,
          datasets, spatial_checks, QUALITY_CHECK_STATUS, tasks, clock, log>>

serviceVars == <<datasets, spatial_checks, QUALITY_CHECK_STATUS, tasks, clock, log>>

Range(s) == {s[i] : i \in 1..Len(s)}

\* ------------------------------------------------------------ the stores
GeometrySnapshot(id, dataset_id, row) ==
    [id |-> id, dataset_id |-> dataset_id,
     geometry_hash |-> row.geometry_hash,
     attributes_hash |-> row.attributes_hash,
     composite_hash |-> compute_composite_hash(row.geometry_hash, row.attributes_hash)]

GeometryDiff(id, dataset_id, diff_type, old_id, new_id, gchanged, achanged, score) ==
    [id |-> id, dataset_id |-> dataset_id, diff_type |-> diff_type,
     old_snapshot_id |-> old_id, new_snapshot_id |-> new_id,
     geometry_changed |-> gchanged, attributes_changed |-> achanged,
     confidence_score |-> score,
     status |-> "PENDING", reviewed_at |-> NONE, reviewed_by |-> NULL]

\* Mutant: the dataset filter is missing.
_get_existing_snapshots_AnyDataset(snaps, dataset_id) == Range(snaps)

\* select(GeometrySnapshot).where(dataset_id == ...)
_get_existing_snapshots(snaps, dataset_id) ==
    {s \in Range(snaps) : s.dataset_id = dataset_id}

\* The query has no ORDER BY, so the order of existing_snapshots is the
\* store's choice.  The run depends on the order through two things only:
\* which snapshot comes first among those of one geometry_hash (first), and
\* which comes last among those of one composite_hash and so survives in the
\* existing_hashes dict (last); a snapshot that is first of its geometry_hash
\* is last of its composite_hash only when it is the only one with it.
GeometryHashes(existing) == {s.geometry_hash : s \in existing}
CompositeHashes(existing) == {s.composite_hash : s \in existing}

WithGeometry(existing, g) == {s \in existing : s.geometry_hash = g}
WithComposite(existing, c) == {s \in existing : s.composite_hash = c}

RECURSIVE FirstChoices(_, _)
FirstChoices(hashes, existing) ==
    IF hashes = {} THEN {<<>>}
    ELSE LET g == CHOOSE h \in hashes : TRUE
         IN  {(g :> s) @@ f : s \in WithGeometry(existing, g),
                              f \in FirstChoices(hashes \ {g}, existing)}

RECURSIVE LastChoices(_, _, _)
LastChoices(hashes, existing, first) ==
    IF hashes = {} THEN {<<>>}
    ELSE LET c == CHOOSE h \in hashes : TRUE
             same == WithComposite(existing, c)
             last == IF Cardinality(same) = 1 THEN same
                     ELSE {s \in same : s # first[s.geometry_hash]}
         IN  {(c :> s) @@ f : s \in last,
                              f \in LastChoices(hashes \ {c}, existing, first)}

ResultOrders(existing) ==
    UNION {{[first |-> f, last |-> l] :
                l \in LastChoices(CompositeHashes(existing), existing, f)} :
           f \in FirstChoices(GeometryHashes(existing), existing)}

\* Mutant: the attributes comparison is inverted.
_determine_diff_type_Inverted(geometry_hash, attributes_hash, existing, order) ==
    IF geometry_hash \in GeometryHashes(existing)
    THEN IF order.first[geometry_hash].attributes_hash = attributes_hash
         THEN "UPDATED"
         ELSE "DUPLICATE"
    ELSE "NEW"

_determine_diff_type(geometry_hash, attributes_hash, existing, order) ==
    IF geometry_hash \in GeometryHashes(existing)
    THEN IF order.first[geometry_hash].attributes_hash # attributes_hash
         THEN "UPDATED"
         ELSE "DUPLICATE"
    ELSE "NEW"

\* The session of one run: the rows added so far (flushed, not committed),
\* the response counters, and whether an exception reached the outer handler.
Session(snaps, dfs) ==
    [snaps |-> snaps, diffs |-> dfs, snapshots_created |-> 0,
     diffs_detected |-> 0, raised |-> FALSE]

AddSnapshot(st, dataset_id, row) ==
    [st EXCEPT !.snaps = Append(@, GeometrySnapshot(Len(@) + 1, dataset_id, row)),
               !.snapshots_created = @ + 1]

AddDiff(st, diff) ==
    [st EXCEPT !.diffs = Append(@, diff), !.diffs_detected = @ + 1]

\* select(GeometryDiff).join(GeometrySnapshot, new_snapshot_id == id)
\*   .where(dataset_id, geometry_hash, status == "PENDING")
PendingDiffLookup(st, dataset_id, geometry_hash) ==
    {x \in Range(st.diffs) :
        /\ x.status = "PENDING"
        /\ x.new_snapshot_id # NONE
        /\ st.snaps[x.new_snapshot_id].dataset_id = dataset_id
        /\ st.snaps[x.new_snapshot_id].geometry_hash = geometry_hash}

\* Mutant: the loop that fills the UPDATED diff (lines 372-378) is missing.
SnapshotAndDiff_NoOld(st, dataset_id, row, existing, order) ==
    LET st1 == AddSnapshot(st, dataset_id, row)
        snapshot_id == Len(st1.snaps)
        diff_type == _determine_diff_type(row.geometry_hash, row.attributes_hash,
                                          existing, order)
        existing_diff == {x \in Range(st1.diffs) : x.new_snapshot_id = snapshot_id}
        score == _calculate_confidence_score(external_query(row.geometry_hash))
        diff == GeometryDiff(Len(st1.diffs) + 1, dataset_id, diff_type,
                             NONE, snapshot_id, TRUE, FALSE, score)
    IN  IF existing_diff # {} THEN st1 ELSE AddDiff(st1, diff)

\* Lines 326-383: a second snapshot of the row and its NEW/UPDATED diff.
SnapshotAndDiff(st, dataset_id, row, existing, order) ==
    LET st1 == AddSnapshot(st, dataset_id, row)
        snapshot_id == Len(st1.snaps)
        diff_type == _determine_diff_type(row.geometry_hash, row.attributes_hash,
                                          existing, order)
        existing_diff == {x \in Range(st1.diffs) : x.new_snapshot_id = snapshot_id}
        score == _calculate_confidence_score(external_query(row.geometry_hash))
        diff == IF diff_type = "UPDATED"
                THEN GeometryDiff(Len(st1.diffs) + 1, dataset_id, diff_type,
                                  order.first[row.geometry_hash].id, snapshot_id,
                                  FALSE, TRUE, score)
                ELSE GeometryDiff(Len(st1.diffs) + 1, dataset_id, diff_type,
                                  NONE, snapshot_id, TRUE, FALSE, score)
    IN  IF existing_diff # {} THEN st1 ELSE AddDiff(st1, diff)

\* Lines 214-442: one row of a change-detection run.
ChangedRow(st, dataset_id, row, existing, order) ==
    IF _is_geometry_problematic(external_query(row.geometry_hash))
    THEN LET pending == PendingDiffLookup(st, dataset_id, row.geometry_hash)
         IN  IF Cardinality(pending) > 1
             THEN [st EXCEPT !.raised = TRUE]      \* scalar_one_or_none raises
             ELSE IF pending # {}
             THEN AddSnapshot(st, dataset_id, row)
             ELSE st
    ELSE SnapshotAndDiff(AddSnapshot(st, dataset_id, row),
                         dataset_id, row, existing, order)

\* Mutant: the composite-hash test is missing, so every row of a
\* change-detection run counts as changed.
ProcessRow_NoCompositeTest(st, dataset_id, row, existing, order, is_baseline_run) ==
    IF st.raised THEN st
    ELSE IF is_baseline_run THEN AddSnapshot(st, dataset_id, row)
    ELSE ChangedRow(st, dataset_id, row, existing, order)

\* Lines 146-442: the body of the loop over external_rows.
ProcessRow(st, dataset_id, row, existing, order, is_baseline_run) ==
    LET composite_hash ==
            compute_composite_hash(row.geometry_hash, row.attributes_hash)
        is_new_geometry == composite_hash \notin CompositeHashes(existing)
    IN  IF st.raised THEN st
        ELSE IF is_baseline_run THEN AddSnapshot(st, dataset_id, row)
        ELSE IF is_new_geometry
        THEN ChangedRow(st, dataset_id, row, existing, order)
        ELSE st

RECURSIVE ProcessRows(_, _, _, _, _, _, _)
ProcessRows(st, dataset_id, rows, i, existing, order, is_baseline_run) ==
    IF i > Len(rows) THEN st
    ELSE ProcessRows(
            ProcessRow(st, dataset_id, rows[i], existing, order, is_baseline_run),
            dataset_id, rows, i + 1, existing, order, is_baseline_run)

\* Mutant: the deletion pass hashes the attributes differently from the
\* main loop.
current_hashes_OtherAttributes(rows) ==
    {compute_composite_hash(r.geometry_hash, <<"raw", r.attributes_hash>>) :
        r \in Range(rows)}

\* Lines 447-459: the composite hashes of the rows read.
current_hashes(rows) ==
    {compute_composite_hash(r.geometry_hash, r.attributes_hash) : r \in Range(rows)}

\* Lines 463-475: one DELETED diff per key of existing_hashes that is absent
\* from current_hashes.
RECURSIVE DeletionPass(_, _, _, _)
DeletionPass(st, dataset_id, missing, order) ==
    IF missing = {} THEN st
    ELSE LET c == CHOOSE h \in missing : TRUE
             diff == GeometryDiff(Len(st.diffs) + 1, dataset_id, "DELETED",
                                  order.last[c].id, NONE, TRUE, FALSE,
                                  deleted_confidence_score)
         IN  DeletionPass(AddDiff(st, diff), dataset_id, missing \ {c}, order)

\* Lines 125-480: the run between the remote read and the commit.
RunBody(snaps, dfs, dataset_id, rows, order) ==
    LET existing == _get_existing_snapshots(snaps, dataset_id)
        is_baseline_run == existing = {}
        st1 == ProcessRows(Session(snaps, dfs), dataset_id, rows, 1,
                           existing, order, is_baseline_run)
    IN  IF st1.raised \/ is_baseline_run THEN st1
        ELSE DeletionPass(st1, dataset_id,
                          CompositeHashes(existing) \ current_hashes(rows), order)

\* ---------------------------------------------------------------- actions
NoRun == [status |-> "NONE"]
NoReview == [outcome |-> "NONE"]
NoLog == [op |-> "NONE"]

\* A dataset row as create_dataset leaves it: active, never checked, the
\* connection not tested.  The cadence is the dataset's own setting.
Dataset(check_interval_minutes) ==
    [is_active |-> TRUE, check_interval_minutes |-> check_interval_minutes,
     last_check_at |-> NONE, connection_status |-> "unknown",
     connection_error |-> NULL, last_connection_test |-> NONE]

\* No status entry for a dataset (the key is not in the map).
NoEntry == [status |-> "absent"]

\* The service before any request, task or tick.
ServiceIdle ==
    /\ datasets = [d \in Datasets |-> Dataset(CheckInterval)]
    /\ spatial_checks = <<>>
    /\ QUALITY_CHECK_STATUS = [d \in Datasets |-> NoEntry]
    /\ tasks = {}
    /\ clock = 1
    /\ log = NoLog

Init ==
    /\ snapshots = <<>>
    /\ diffs = <<>>
    /\ seen = [d \in Datasets |-> {}]
    /\ lastRun = NoRun
    /\ lastReview = NoReview
    /\ runs = 0
    /\ reviews = 0
    /\ ServiceIdle

\* monitor_dataset_changes(dataset) reading table t, with the existing
\* snapshots returned in an order the store chooses; the run commits.
\* seen and lastRun record the run for the properties below.
MonitorSucceeds(d) ==
    /\ runs < MaxRuns
    /\ \E t \in TablesOf(d) :
       \E order \in ResultOrders(_get_existing_snapshots(snapshots, d)) :
          LET st == RunBody(snapshots, diffs, d, external_rows(t), order)
              baseline == \A i \in 1..Len(snapshots) : snapshots[i].dataset_id # d
          IN  /\ ~st.raised
              /\ snapshots' = st.snaps
              /\ diffs' = st.diffs
              /\ seen' = [seen EXCEPT ![d] = {[table |-> t, baseline |-> baseline]}]
              /\ lastRun' = [status |-> "SUCCESS", dataset_id |-> d,
                             table |-> t, previous |-> seen[d],
                             snapshots_before |-> snapshots,
                             diffs_before |-> diffs,
                             snapshots_created |-> st.snapshots_created,
                             diffs_detected |-> st.diffs_detected]
    /\ runs' = runs + 1
    /\ UNCHANGED <<lastReview, reviews>>
    /\ UNCHANGED serviceVars

\* monitor_dataset_changes(dataset) when the remote connect or read raises,
\* or an exception reaches the outer handler: rollback, status FAILED.
MonitorFails(d) ==
    /\ runs < MaxRuns
    /\ lastRun' = [status |-> "FAILED", dataset_id |-> d]
    /\ runs' = runs + 1
    /\ UNCHANGED <<snapshots, diffs, seen, lastReview, reviews>>
    /\ UNCHANGED serviceVars

\* ------------------------------------------------------------ the reviews
Reviewers == {"alice"}

\* The ids a request may name: those of the stored diffs and one that no
\* diff has.
DiffIds == 1..(Len(diffs) + 1)

\* The id lists of a batch request (a list may repeat an id).
RECURSIVE IdLists(_)
IdLists(n) ==
    IF n = 0 THEN {<<>>}
    ELSE IdLists(n - 1) \cup
         {Append(l, i) : l \in {m \in IdLists(n - 1) : Len(m) = n - 1}, i \in DiffIds}

Reviewed(diff, status, now, reviewed_by) ==
    [diff EXCEPT !.status = status, !.reviewed_at = now, !.reviewed_by = reviewed_by]

\* Mutant: the PENDING test of review_diff is missing.
review_diff_outcome_NoPendingTest(diff_id, status) ==
    IF status \notin {"ACCEPTED", "REJECTED"} THEN "400"
    ELSE IF diff_id > Len(diffs) THEN "404"
    ELSE "OK"

\* review_diff: 400 on a status other than ACCEPTED or REJECTED, 404 on an
\* unknown diff, 400 on a diff that is not PENDING.
review_diff_outcome(diff_id, status) ==
    IF status \notin {"ACCEPTED", "REJECTED"} THEN "400"
    ELSE IF diff_id > Len(diffs) THEN "404"
    ELSE IF diffs[diff_id].status # "PENDING" THEN "400"
    ELSE "OK"

\* PUT /{diff_id}/review; the request is the (reviews + 1)-th, which stands
\* for the time it reads.
review_diff(diff_id, status, reviewed_by) ==
    /\ reviews < MaxReviews
    /\ LET outcome == review_diff_outcome(diff_id, status)
       IN  /\ diffs' = IF outcome = "OK"
                       THEN [diffs EXCEPT ![diff_id] =
                                Reviewed(@, status, reviews + 1, reviewed_by)]
                       ELSE diffs
           /\ lastReview' = [outcome |-> outcome, kind |-> "single",
                             diff_ids |-> <<diff_id>>, status |-> status,
                             reviewed_by |-> reviewed_by, before |-> diffs]
    /\ reviews' = reviews + 1
    /\ UNCHANGED <<snapshots, seen, lastRun, runs>>
    /\ UNCHANGED serviceVars

\* select(GeometryDiff).where(id.in_(diff_ids))
SelectedDiffs(diff_ids) == {i \in Range(diff_ids) : i <= Len(diffs)}

\* batch_review_diffs: 400 on an action other than ACCEPT or REJECT, 404
\* when the diffs found are not as many as the ids given, 400 when one of
\* them is not PENDING.
batch_review_outcome(diff_ids, action) ==
    IF action \notin {"ACCEPT", "REJECT"} THEN "400"
    ELSE IF Cardinality(SelectedDiffs(diff_ids)) # Len(diff_ids) THEN "404"
    ELSE IF \E i \in SelectedDiffs(diff_ids) : diffs[i].status # "PENDING" THEN "400"
    ELSE "OK"

\* POST /batch-review
batch_review_diffs(diff_ids, action, reviewed_by) ==
    /\ reviews < MaxReviews
    /\ LET outcome == batch_review_outcome(diff_ids, action)
           status == IF action = "ACCEPT" THEN "ACCEPTED" ELSE "REJECTED"
       IN  /\ diffs' = IF outcome = "OK"
                       THEN [i \in 1..Len(diffs) |->
                                IF i \in SelectedDiffs(diff_ids)
                                THEN Reviewed(diffs[i], status, reviews + 1, reviewed_by)
                                ELSE diffs[i]]
                       ELSE diffs
           /\ lastReview' = [outcome |-> outcome, kind |-> "batch",
                             diff_ids |-> diff_ids, status |-> status,
                             reviewed_by |-> reviewed_by, before |-> diffs]
    /\ reviews' = reviews + 1
    /\ UNCHANGED <<snapshots, seen, lastRun, runs>>
    /\ UNCHANGED serviceVars

\* The review queue after a baseline run and one change-detection run of
\* the first dataset.
InitReview ==
    /\ \E t1, t2 \in Tables :
         LET base == RunBody(<<>>, <<>>, "d1", external_rows(t1), [first |-> <<>>, last |-> <<>>])
         IN  \E order \in ResultOrders(_get_existing_snapshots(base.snaps, "d1")) :
                LET st == RunBody(base.snaps, base.diffs, "d1", external_rows(t2), order)
                IN  /\ snapshots = st.snaps
                    /\ diffs = st.diffs
    /\ seen = [d \in Datasets |-> {}]
    /\ lastRun = NoRun
    /\ lastReview = NoReview
    /\ runs = 0
    /\ reviews = 0
    /\ ServiceIdle

NextReview ==
    \/ \E i \in DiffIds, status \in {"ACCEPTED", "REJECTED", "PENDING"},
          who \in Reviewers : review_diff(i, status, who)
    \/ \E l \in IdLists(MaxBatch), action \in {"ACCEPT", "REJECT", "SKIP"},
          who \in Reviewers : batch_review_diffs(l, action, who)

SpecReview == InitReview /\ [][NextReview]_vars

\* ------------------------------------------------ reviews, step by step
\* A review request between its read and its commit: the handler has found
\* the diffs PENDING in its own session and holds the changes to write.
ReviewRequest(kind, id, diff_ids, status, reviewed_by) ==
    [kind |-> kind, id |-> id, diff_ids |-> diff_ids, status |-> status,
     reviewed_by |-> reviewed_by]

\* PUT /{diff_id}/review up to the commit: the select and the tests of the
\* handler.  The row is read without a lock.
review_diff_reads(diff_id, status, reviewed_by) ==
    /\ reviews < MaxReviews
    /\ LET outcome == review_diff_outcome(diff_id, status)
       IN  /\ tasks' = IF outcome = "OK"
                       THEN tasks \cup {ReviewRequest("review_diff", reviews + 1,
                                                      <<diff_id>>, status, reviewed_by)}
                       ELSE tasks
           /\ lastReview' = [outcome |-> IF outcome = "OK" THEN "READ" ELSE outcome,
                             kind |-> "single", diff_ids |-> <<diff_id>>,
                             status |-> status, reviewed_by |-> reviewed_by,
                             before |-> diffs]
    /\ reviews' = reviews + 1
    /\ UNCHANGED <<snapshots, diffs, seen, lastRun, runs, datasets, spatial_checks,
                   QUALITY_CHECK_STATUS, clock, log>>

\* POST /batch-review up to the commit.
batch_review_diffs_reads(diff_ids, action, reviewed_by) ==
    /\ reviews < MaxReviews
    /\ LET outcome == batch_review_outcome(diff_ids, action)
           status == IF action = "ACCEPT" THEN "ACCEPTED" ELSE "REJECTED"
       IN  /\ tasks' = IF outcome = "OK"
                       THEN tasks \cup {ReviewRequest("batch_review_diffs", reviews + 1,
                                                      diff_ids, status, reviewed_by)}
                       ELSE tasks
           /\ lastReview' = [outcome |-> IF outcome = "OK" THEN "READ" ELSE outcome,
                             kind |-> "batch", diff_ids |-> diff_ids,
                             status |-> status, reviewed_by |-> reviewed_by,
                             before |-> diffs]
    /\ reviews' = reviews + 1
    /\ UNCHANGED <<snapshots, diffs, seen, lastRun, runs, datasets, spatial_checks,
                   QUALITY_CHECK_STATUS, clock, log>>

\* await db.commit() of either handler: the session writes status,
\* reviewed_at and reviewed_by of the rows it changed, by primary key,
\* whatever the rows hold by then.
review_commits(request) ==
    /\ request.kind \in {"review_diff", "batch_review_diffs"}
    /\ diffs' = [i \in 1..Len(diffs) |->
                    IF i \in Range(request.diff_ids)
                    THEN Reviewed(diffs[i], request.status, request.id,
                                  request.reviewed_by)
                    ELSE diffs[i]]
    /\ tasks' = tasks \ {request}
    /\ lastReview' = [outcome |-> "OK",
                      kind |-> IF request.kind = "review_diff" THEN "single" ELSE "batch",
                      diff_ids |-> request.diff_ids, status |-> request.status,
                      reviewed_by |-> request.reviewed_by, before |-> diffs]
    /\ UNCHANGED <<snapshots, seen, lastRun, runs, reviews, datasets,
                   spatial_checks, QUALITY_CHECK_STATUS, clock, log>>

NextReviewSteps ==
    \/ \E i \in DiffIds, status \in {"ACCEPTED", "REJECTED", "PENDING"},
          who \in Reviewers : review_diff_reads(i, status, who)
    \/ \E l \in IdLists(MaxBatch), action \in {"ACCEPT", "REJECT", "SKIP"},
          who \in Reviewers : batch_review_diffs_reads(l, action, who)
    \/ \E request \in tasks : review_commits(request)

SpecReviewSteps == InitReview /\ [][NextReviewSteps]_vars

\* ------------------------------------------------------ the quality checks
\* asyncio.sleep(300) of cleanup_status, in minutes.
quality_status_ttl == 5

\* How many operations of the service have been made.
Count == IF log.op = "NONE" THEN 0 ELSE log.n

\* The tables a quality check may read.
QualityTables == {EmptyTable, [EmptyTable EXCEPT ![1] = 1],
                  [EmptyTable EXCEPT ![1] = 1, ![3] = 1]}

SpatialCheck(id, dataset_id, snapshot_id, check_type, check_result) ==
    [id |-> id, dataset_id |-> dataset_id, snapshot_id |-> snapshot_id,
     check_type |-> check_type, check_result |-> check_result]

\* The snapshot a quality check takes for a row: snapshots[0] of those with
\* the dataset and the row's geometry_hash (0 when there is none).
SnapshotFor(snaps, dataset_id, geometry_hash) ==
    LET found == {i \in 1..Len(snaps) : /\ snaps[i].dataset_id = dataset_id
                                        /\ snaps[i].geometry_hash = geometry_hash}
    IN  IF found = {} THEN NONE ELSE CHOOSE i \in found : \A j \in found : i <= j

\* _run_basic_quality_checks: of the checks the test runner makes, the basic
\* validity check, which every row gets.
_run_basic_quality_checks(dataset_id, snapshot_id, row) ==
    <<[dataset_id |-> dataset_id, snapshot_id |-> snapshot_id,
       check_type |-> "VALIDITY",
       check_result |-> IF external_query(row.geometry_hash).is_valid
                        THEN "PASS" ELSE "FAIL"]>>

\* db.add(check) for each check of a list.
RECURSIVE AddChecks(_, _)
AddChecks(checks, new) ==
    IF new = <<>> THEN checks
    ELSE AddChecks(Append(checks, SpatialCheck(Len(checks) + 1, new[1].dataset_id,
                                               new[1].snapshot_id, new[1].check_type,
                                               new[1].check_result)),
                   Tail(new))

\* The loop of run_quality_checks over the rows read: a row with no snapshot
\* is skipped.
RECURSIVE QualityLoop(_, _, _, _, _)
QualityLoop(checks, snaps, dataset_id, rows, i) ==
    IF i > Len(rows) THEN checks
    ELSE LET snapshot == SnapshotFor(snaps, dataset_id, rows[i].geometry_hash)
         IN  QualityLoop(IF snapshot = NONE THEN checks
                         ELSE AddChecks(checks,
                                 _run_basic_quality_checks(dataset_id, snapshot, rows[i])),
                         snaps, dataset_id, rows, i + 1)

\* DELETE FROM spatial_checks WHERE dataset_id = :dataset_id
\* (the ids of the findings that stay are kept dense).
RECURSIVE DeleteChecks(_, _)
DeleteChecks(checks, dataset_id) ==
    IF checks = <<>> THEN <<>>
    ELSE LET rest == DeleteChecks(SubSeq(checks, 1, Len(checks) - 1), dataset_id)
             last == checks[Len(checks)]
         IN  IF last.dataset_id = dataset_id THEN rest
             ELSE Append(rest, [last EXCEPT !.id = Len(rest) + 1])

\* GeometryService.run_quality_checks: delete the dataset's findings, read
\* the remote table, add the findings of every row, commit.  When anything
\* raises, the engine returns {"error": ...} without a commit, and the
\* session's work is discarded.
run_quality_checks(checks, snaps, dataset_id, rows, outcome) ==
    IF outcome = "error" THEN checks
    ELSE QualityLoop(DeleteChecks(checks, dataset_id), snaps, dataset_id, rows, 1)

ChecksOf(checks, dataset_id) ==
    {checks[i] : i \in {j \in 1..Len(checks) : checks[j].dataset_id = dataset_id}}

\* sum(v for k, v in check_results.items() if k.endswith('_checks')) counts
\* a failed check twice, failed_checks ending in _checks too.
CheckResults(checks, dataset_id) ==
    LET mine == ChecksOf(checks, dataset_id)
        failed == Cardinality({c \in mine : c.check_result = "FAIL"})
    IN  [validity_checks |-> Cardinality(mine), failed_checks |-> failed,
         total_checks |-> Cardinality(mine) + failed]

\* The findings of a dataset in insertion order, without their ids.
RECURSIVE Findings(_, _)
Findings(checks, dataset_id) ==
    IF checks = <<>> THEN <<>>
    ELSE LET c == checks[1]
             rest == Findings(Tail(checks), dataset_id)
         IN  IF c.dataset_id = dataset_id
             THEN <<[dataset_id |-> c.dataset_id, snapshot_id |-> c.snapshot_id,
                     check_type |-> c.check_type,
                     check_result |-> c.check_result]>> \o rest
             ELSE rest

\* Mutant: a request is accepted while the dataset's entry is running.
start_quality_checks_outcome_NoRunningTest(dataset_id) ==
    IF ~datasets[dataset_id].is_active THEN "404"
    ELSE IF datasets[dataset_id].last_check_at = NONE THEN "400"
    ELSE "started"

\* start_quality_checks: 404 on a dataset that is missing or inactive, 400
\* on one never checked, 400 while its entry is running.
start_quality_checks_outcome(dataset_id) ==
    IF ~datasets[dataset_id].is_active THEN "404"
    ELSE IF datasets[dataset_id].last_check_at = NONE THEN "400"
    ELSE IF QUALITY_CHECK_STATUS[dataset_id].status = "running" THEN "400"
    ELSE "started"

Task(kind, dataset_id, id, due) ==
    [kind |-> kind, dataset_id |-> dataset_id, id |-> id, due |-> due]

\* POST /datasets/{dataset_id}/quality-checks/start.  The field request of
\* an entry names the request the entry belongs to; the code keeps no such
\* field, the properties read it.
start_quality_checks(dataset_id) ==
    /\ Count < MaxChecks
    /\ LET outcome == start_quality_checks_outcome(dataset_id)
           n == Count + 1
       IN  /\ QUALITY_CHECK_STATUS' =
                IF outcome = "started"
                THEN [QUALITY_CHECK_STATUS EXCEPT ![dataset_id] =
                        [status |-> "running", started_at |-> clock,
                         progress |-> [current |-> 0, total |-> 0,
                                       phase |-> "initializing"],
                         request |-> n]]
                ELSE QUALITY_CHECK_STATUS
           /\ tasks' = IF outcome = "started"
                       THEN tasks \cup {Task("run_quality_checks_background",
                                             dataset_id, n, clock)}
                       ELSE tasks
           /\ log' = [op |-> "start_quality_checks", n |-> n,
                      dataset_id |-> dataset_id, outcome |-> outcome,
                      status_before |-> QUALITY_CHECK_STATUS,
                      tasks_before |-> tasks]
    /\ UNCHANGED <<snapshots, diffs, seen, lastRun, lastReview, runs, reviews,
                   datasets, spatial_checks, clock>>

\* What the call run_quality_checks(dataset, update_progress) of the
\* background task comes to.  GeometryService.run_quality_checks takes the
\* dataset alone, so with the callback the call raises TypeError before the
\* engine runs ("raised").  The two returns of the engine, a result summary
\* and {"error": ...}, are kept as outcomes, so that the branches of the task
\* that handle them are part of the model.
BackgroundOutcomes == {"raised", "results", "error"}

\* run_quality_checks_background.  On "raised" the handler of the task
\* evaluates dataset.get('name', ...) on a Dataset row, which raises in turn,
\* and the entry is not written.
run_quality_checks_background(task) ==
    /\ task \in tasks
    /\ task.kind = "run_quality_checks_background"
    /\ \E outcome \in BackgroundOutcomes, t \in QualityTables :
          LET d == task.dataset_id
              checks == run_quality_checks(spatial_checks, snapshots, d,
                                           external_rows(t), outcome)
          IN  /\ outcome # "raised" \/ t = EmptyTable
              /\ outcome # "error" \/ t = EmptyTable
              /\ spatial_checks' = IF outcome = "results" THEN checks
                                   ELSE spatial_checks
              /\ QUALITY_CHECK_STATUS' =
                   CASE outcome = "results" ->
                          [QUALITY_CHECK_STATUS EXCEPT ![d] =
                             [status |-> "completed", completed_at |-> clock,
                              check_results |-> CheckResults(checks, d),
                              request |-> task.id]]
                     [] outcome = "error" ->
                          [QUALITY_CHECK_STATUS EXCEPT ![d] =
                             [status |-> "failed", failed_at |-> clock,
                              error |-> "error", request |-> task.id]]
                     [] OTHER -> QUALITY_CHECK_STATUS
              /\ tasks' = (tasks \ {task}) \cup
                          IF outcome = "results"
                          THEN {Task("cleanup_status", d, task.id,
                                     clock + quality_status_ttl)}
                          ELSE {}
              /\ log' = [op |-> "run_quality_checks_background", n |-> Count,
                         dataset_id |-> d, outcome |-> outcome,
                         request |-> task.id,
                         checks_before |-> spatial_checks,
                         ran |-> IF outcome = "results" THEN {d} ELSE {},
                         produced |-> [e \in Datasets |->
                                         Findings(QualityLoop(<<>>, snapshots, d,
                                                     external_rows(t), 1), e)]]
    /\ UNCHANGED <<snapshots, diffs, seen, lastRun, lastReview, runs, reviews,
                   datasets, clock>>

\* cleanup_status, the timer a completed run leaves: once the sleep is over
\* it deletes the dataset's entry if there is one.
cleanup_status(task) ==
    /\ task \in tasks
    /\ task.kind = "cleanup_status"
    /\ clock >= task.due
    /\ QUALITY_CHECK_STATUS' = [QUALITY_CHECK_STATUS EXCEPT ![task.dataset_id] = NoEntry]
    /\ tasks' = tasks \ {task}
    /\ log' = [op |-> "cleanup_status", n |-> Count,
               dataset_id |-> task.dataset_id, request |-> task.id,
               removed |-> QUALITY_CHECK_STATUS[task.dataset_id]]
    /\ UNCHANGED <<snapshots, diffs, seen, lastRun, lastReview, runs, reviews,
                   datasets, spatial_checks, clock>>

\* The order in which a cycle of the worker goes through the datasets.
DatasetOrder == <<"d1", "d2">>

\* The loop of DevelopmentWorker._run_quality_checks: the engine is run for
\* every active dataset in turn, each in a session of its own; input[d] is
\* the table read for d and what the engine comes to.
RECURSIVE QualityCycle(_, _, _)
QualityCycle(checks, input, i) ==
    IF i > Len(DatasetOrder) THEN checks
    ELSE LET d == DatasetOrder[i]
         IN  QualityCycle(IF datasets[d].is_active
                          THEN run_quality_checks(checks, snapshots, d,
                                                  external_rows(input[d].table),
                                                  input[d].outcome)
                          ELSE checks,
                          input, i + 1)

\* DevelopmentWorker._run_quality_checks, one cycle.
_run_quality_checks ==
    /\ Count < MaxChecks
    /\ \E input \in [Datasets -> [table : QualityTables, outcome : {"results", "error"}]] :
          /\ \A d \in Datasets : input[d].outcome = "error" => input[d].table = EmptyTable
          /\ spatial_checks' = QualityCycle(spatial_checks, input, 1)
          /\ log' = [op |-> "_run_quality_checks", n |-> Count + 1,
                     checks_before |-> spatial_checks,
                     ran |-> {d \in Datasets : /\ datasets[d].is_active
                                              /\ input[d].outcome = "results"},
                     produced |-> [d \in Datasets |->
                                     Findings(QualityLoop(<<>>, snapshots, d,
                                                 external_rows(input[d].table), 1), d)]]
    /\ UNCHANGED <<snapshots, diffs, seen, lastRun, lastReview, runs, reviews,
                   datasets, QUALITY_CHECK_STATUS, tasks, clock>>

\* GeometryService.perform_spatial_checks: a validity check, and a duplicate
\* warning when another snapshot of the dataset has the same geometry_hash.
perform_spatial_checks(snaps, snapshot) ==
    LET duplicate_count ==
            Cardinality({i \in 1..Len(snaps) :
                            /\ snaps[i].dataset_id = snapshot.dataset_id
                            /\ snaps[i].geometry_hash = snapshot.geometry_hash
                            /\ snaps[i].id # snapshot.id})
    IN  <<[dataset_id |-> snapshot.dataset_id, snapshot_id |-> snapshot.id,
           check_type |-> "VALIDITY",
           check_result |-> IF external_query(snapshot.geometry_hash).is_valid
                            THEN "PASS" ELSE "FAIL"]>>
        \o IF duplicate_count > 0
           THEN <<[dataset_id |-> snapshot.dataset_id, snapshot_id |-> snapshot.id,
                   check_type |-> "DUPLICATE", check_result |-> "WARNING"]>>
           ELSE <<>>

\* The loop of validate_dataset_topology over the snapshots of a dataset.
RECURSIVE TopologyLoop(_, _, _)
TopologyLoop(checks, dataset_id, i) ==
    IF i > Len(snapshots) THEN checks
    ELSE TopologyLoop(IF snapshots[i].dataset_id = dataset_id
                      THEN AddChecks(checks, perform_spatial_checks(snapshots, snapshots[i]))
                      ELSE checks,
                      dataset_id, i + 1)

\* GET /topology/validate: the checks of every snapshot of the dataset are
\* added to the findings and committed.
validate_dataset_topology(dataset_id) ==
    /\ Count < MaxChecks
    /\ spatial_checks' = TopologyLoop(spatial_checks, dataset_id, 1)
    /\ log' = [op |-> "validate_dataset_topology", n |-> Count + 1,
               dataset_id |-> dataset_id,
               checks_before |-> spatial_checks,
               ran |-> {dataset_id},
               produced |-> [d \in Datasets |->
                               Findings(TopologyLoop(<<>>, dataset_id, 1), d)]]
    /\ UNCHANGED <<snapshots, diffs, seen, lastRun, lastReview, runs, reviews,
                   datasets, QUALITY_CHECK_STATUS, tasks, clock>>

\* Time passes.
Elapse(minutes) ==
    /\ clock + minutes <= MaxTime
    /\ clock' = clock + minutes
    /\ UNCHANGED <<snapshots, diffs, seen, lastRun, lastReview, runs, reviews,
                   datasets, spatial_checks, QUALITY_CHECK_STATUS, tasks, log>>

\* The stores after the baseline run of the first dataset, the second
\* dataset never checked or checked as well.
InitQuality ==
    /\ \E t1 \in QualityTables, t2 \in QualityTables, checked \in BOOLEAN :
          LET none == [first |-> <<>>, last |-> <<>>]
              s1 == RunBody(<<>>, <<>>, "d1", external_rows(t1), none)
              s2 == RunBody(s1.snaps, s1.diffs, "d2", external_rows(t2), none)
          IN  /\ checked \/ t2 = EmptyTable
              /\ snapshots = IF checked THEN s2.snaps ELSE s1.snaps
              /\ datasets = [d \in Datasets |->
                               IF d = "d1" \/ checked
                               THEN [Dataset(CheckInterval) EXCEPT
                                        !.last_check_at = 1,
                                        !.connection_status = "success"]
                               ELSE Dataset(CheckInterval)]
    /\ diffs = <<>>
    /\ seen = [d \in Datasets |-> {}]
    /\ lastRun = NoRun
    /\ lastReview = NoReview
    /\ runs = 0
    /\ reviews = 0
    /\ spatial_checks = <<>>
    /\ QUALITY_CHECK_STATUS = [d \in Datasets |-> NoEntry]
    /\ tasks = {}
    /\ clock = 1
    /\ log = NoLog

NextQuality ==
    \/ \E d \in Datasets : start_quality_checks(d)
    \/ \E task \in tasks : run_quality_checks_background(task)
    \/ \E task \in tasks : cleanup_status(task)
    \/ _run_quality_checks
    \/ \E d \in Datasets : validate_dataset_topology(d)
    \/ \E minutes \in {1, quality_status_ttl} : Elapse(minutes)

SpecQuality == InitQuality /\ [][NextQuality]_vars

\* A background task that was added is run, and a timer that is due fires.
SpecQualityLive ==
    /\ InitQuality
    /\ [][NextQuality]_vars
    /\ WF_vars(\E task \in tasks : run_quality_checks_background(task))
    /\ WF_vars(\E task \in tasks : cleanup_status(task))

\* ----------------------------------------- quality checks, step by step
\* The next dataset of a cycle after position i that is active, 0 when
\* there is none.
NextListed(i) ==
    LET later == {j \in (i + 1)..Len(DatasetOrder) : datasets[DatasetOrder[j]].is_active}
    IN  IF later = {} THEN 0 ELSE CHOOSE j \in later : \A k \in later : j <= k

\* The engine call of the worker's cycle for the dataset at position i: a
\* task that is in progress from the call to its return.
EngineCall(i) ==
    IF i = 0 THEN {}
    ELSE {Task("_run_quality_checks", DatasetOrder[i], i, NONE)}

\* DevelopmentWorker._run_quality_checks up to the first engine call: the
\* active datasets are listed and run_quality_checks is called for the
\* first one.  Neither the loop nor the engine reads QUALITY_CHECK_STATUS.
_run_quality_checks_begins ==
    /\ Count < MaxChecks
    /\ \A task \in tasks : task.kind # "_run_quality_checks"
    /\ tasks' = tasks \cup EngineCall(NextListed(0))
    /\ log' = [op |-> "_run_quality_checks", n |-> Count + 1]
    /\ UNCHANGED <<snapshots, diffs, seen, lastRun, lastReview, runs, reviews,
                   datasets, spatial_checks, QUALITY_CHECK_STATUS, clock>>

\* The engine call of the cycle returns, with a summary or with
\* {"error": ...}, and the loop calls the engine for the next dataset.
_run_quality_checks_continues(task) ==
    /\ task \in tasks
    /\ task.kind = "_run_quality_checks"
    /\ \E t \in QualityTables, outcome \in {"results", "error"} :
          /\ outcome = "error" => t = EmptyTable
          /\ spatial_checks' = run_quality_checks(spatial_checks, snapshots,
                                                  task.dataset_id,
                                                  external_rows(t), outcome)
          /\ log' = [op |-> "run_quality_checks", n |-> Count,
                     dataset_id |-> task.dataset_id, outcome |-> outcome]
    /\ tasks' = (tasks \ {task}) \cup EngineCall(NextListed(task.id))
    /\ UNCHANGED <<snapshots, diffs, seen, lastRun, lastReview, runs, reviews,
                   datasets, QUALITY_CHECK_STATUS, clock>>

NextQualitySteps ==
    \/ \E d \in Datasets : start_quality_checks(d)
    \/ \E task \in tasks : run_quality_checks_background(task)
    \/ \E task \in tasks : cleanup_status(task)
    \/ _run_quality_checks_begins
    \/ \E task \in tasks : _run_quality_checks_continues(task)
    \/ \E minutes \in {1, quality_status_ttl} : Elapse(minutes)

SpecQualitySteps == InitQuality /\ [][NextQualitySteps]_vars

\* ----------------------------------------------------- start and reset
\* The fields of Settings.
Settings ==
    {"APP_NAME", "APP_VERSION", "DEBUG", "DATABASE_URL", "ALLOWED_ORIGINS",
     "REDIS_URL", "CELERY_TASK_ALWAYS_EAGER", "MAX_GEOMETRY_COMPLEXITY",
     "GEOMETRY_SIMPLIFICATION_TOLERANCE", "DIFF_BATCH_SIZE",
     "DIFF_TIMEOUT_SECONDS", "SPATIAL_INDEX_METHOD", "DEFAULT_SRID",
     "SECRET_KEY", "ACCESS_TOKEN_EXPIRE_MINUTES", "LOG_LEVEL", "LOG_FORMAT"}

\* The tables as the properties compare them.
Tables4 == [snapshots |-> snapshots, diffs |-> diffs,
            spatial_checks |-> spatial_checks, datasets |-> datasets]

\* UPDATE datasets SET last_check_at = NULL, connection_status = 'unknown',
\* connection_error = NULL, last_connection_test = NULL WHERE true
ResetMonitoringState(row) ==
    [row EXCEPT !.last_check_at = NONE, !.connection_status = "unknown",
                !.connection_error = NULL, !.last_connection_test = NONE]

\* _smart_restart_reset: every row of spatial_checks, geometry_diffs and
\* geometry_snapshots is deleted and the monitoring state of every dataset
\* is reset; the rows of datasets stay.
_smart_restart_reset ==
    /\ spatial_checks' = <<>>
    /\ diffs' = <<>>
    /\ snapshots' = <<>>
    /\ datasets' = [d \in Datasets |-> ResetMonitoringState(datasets[d])]

\* The process starts: lifespan calls init_db.  init_db reads
\* settings.PRESERVE_CONNECTIONS_ON_RESTART, which Settings does not define:
\* the read raises, the transaction is rolled back, init_db logs a warning
\* and the service starts on the tables as they were.  The status map and
\* the tasks of the process that ended are gone.
init_db ==
    /\ Count < MaxResets
    /\ IF "PRESERVE_CONNECTIONS_ON_RESTART" \in Settings
       THEN _smart_restart_reset
       ELSE UNCHANGED <<spatial_checks, diffs, snapshots, datasets>>
    /\ QUALITY_CHECK_STATUS' = [d \in Datasets |-> NoEntry]
    /\ tasks' = {}
    /\ log' = [op |-> "init_db", n |-> Count + 1, before |-> Tables4]
    /\ UNCHANGED <<seen, lastRun, lastReview, runs, reviews, clock>>

\* POST /reset-monitoring.  The handler passes db.connection() to
\* _smart_restart_reset inside db.begin(); whether that call goes through
\* is left open: on "success" the reset is committed, on "error" the
\* handler's except returns status error and nothing is changed.
reset_monitoring_data ==
    /\ Count < MaxResets
    /\ \E outcome \in {"success", "error"} :
          /\ IF outcome = "success" THEN _smart_restart_reset
             ELSE UNCHANGED <<spatial_checks, diffs, snapshots, datasets>>
          /\ log' = [op |-> "reset_monitoring_data", n |-> Count + 1,
                     outcome |-> outcome, before |-> Tables4]
    /\ UNCHANGED <<seen, lastRun, lastReview, runs, reviews,
                   QUALITY_CHECK_STATUS, tasks, clock>>

\* The service after some monitoring: a baseline run of each dataset, a
\* further run of the first, possibly a quality-check cycle; the second
\* dataset active or deactivated.
InitLifecycle ==
    /\ \E t1 \in QualityTables, t2 \in QualityTables, t3 \in QualityTables,
          cycle \in BOOLEAN, active \in BOOLEAN, running \in BOOLEAN :
       \E s1 \in {RunBody(<<>>, <<>>, "d1", external_rows(t1),
                          [first |-> <<>>, last |-> <<>>])} :
       \E s2 \in {RunBody(s1.snaps, s1.diffs, "d2", external_rows(t2),
                          [first |-> <<>>, last |-> <<>>])} :
       \E existing \in {_get_existing_snapshots(s2.snaps, "d1")} :
       \E s3 \in {IF existing = {} THEN s2
                  ELSE RunBody(s2.snaps, s2.diffs, "d1", external_rows(t3),
                               CHOOSE o \in ResultOrders(existing) : TRUE)} :
       \E c1 \in {QualityLoop(<<>>, s3.snaps, "d1", external_rows(t1), 1)} :
          /\ existing = {} => t3 = EmptyTable
          /\ snapshots = s3.snaps
          /\ diffs = s3.diffs
          /\ spatial_checks =
                IF cycle
                THEN QualityLoop(c1, s3.snaps, "d2", external_rows(t2), 1)
                ELSE <<>>
          /\ datasets = [d \in Datasets |->
                           [Dataset(CheckInterval) EXCEPT
                              !.last_check_at = 1,
                              !.connection_status = "success",
                              !.is_active = (d = "d1" \/ active)]]
          /\ QUALITY_CHECK_STATUS =
                [d \in Datasets |->
                   IF d = "d1" /\ running
                   THEN [status |-> "running", started_at |-> 1,
                         progress |-> [current |-> 0, total |-> 0,
                                       phase |-> "initializing"],
                         request |-> 0]
                   ELSE NoEntry]
          /\ tasks = IF running
                     THEN {Task("run_quality_checks_background", "d1", 0, 1)}
                     ELSE {}
    /\ seen = [d \in Datasets |-> {}]
    /\ lastRun = NoRun
    /\ lastReview = NoReview
    /\ runs = 0
    /\ reviews = 0
    /\ clock = 1
    /\ log = NoLog

NextLifecycle ==
    \/ init_db
    \/ reset_monitoring_data

SpecLifecycle == InitLifecycle /\ [][NextLifecycle]_vars

\* ---------------------------------------------------------- the scheduler
beat_schedule == 1              \* minutes: "schedule": 60.0
change_detection_interval == 1  \* minutes: 60 seconds

\* Mutant: the interval is not looked at.
should_check_Always(dataset, now) ==
    IF dataset.last_check_at = NONE THEN TRUE
    ELSE now >= dataset.last_check_at

\* The eligibility test of a tick.
should_check(dataset, now) ==
    IF dataset.last_check_at = NONE THEN TRUE
    ELSE now >= dataset.last_check_at + dataset.check_interval_minutes

\* What a run reads and whether the remote database answers.
RunInputs ==
    {i \in [table : QualityTables, remote : {"ok", "fails"}] :
        (i.remote = "fails") <=> (i.table = EmptyTable)}

\* An order of the existing snapshots for each dataset.
OrdersOf(snaps) ==
    {[d \in Datasets |-> IF d = "d1" THEN o1 ELSE o2] :
        o1 \in ResultOrders(_get_existing_snapshots(snaps, "d1")),
        o2 \in ResultOrders(_get_existing_snapshots(snaps, "d2"))}

\* One call of monitor_dataset_changes on the stores: the response status
\* and the stores after it (a FAILED run has rolled back).
Monitored(snaps, dfs, dataset_id, input, order) ==
    LET st == RunBody(snaps, dfs, dataset_id, external_rows(input.table), order)
    IN  IF input.remote = "fails" \/ st.raised
        THEN [status |-> "FAILED", snaps |-> snaps, diffs |-> dfs]
        ELSE [status |-> "SUCCESS", snaps |-> st.snaps, diffs |-> st.diffs]

\* dataset.last_check_at = now; connection_status and connection_error
\* from the response.
Checked(dataset, status, now) ==
    [dataset EXCEPT !.last_check_at = now,
                    !.connection_status =
                        IF status = "SUCCESS" THEN "success" ELSE "failed",
                    !.connection_error =
                        IF status = "FAILED" THEN "error" ELSE NULL]

RunKinds == {"async_monitor_dataset", "import_geometries"}

\* The runs of dataset d that have started and not returned.
RunsInProgress(d) == {task \in tasks : task.kind \in RunKinds /\ task.dataset_id = d}

\* The Celery beat task monitor_all_datasets: one monitor_dataset task is
\* dispatched for every active dataset whose check is due; the next tick is
\* a beat_schedule later.
monitor_all_datasets ==
    /\ Count < MaxTicks
    /\ \E beat \in tasks :
          /\ beat.kind = "monitor_all_datasets"
          /\ clock >= beat.due
          /\ LET dispatched == {d \in Datasets : /\ datasets[d].is_active
                                                /\ should_check(datasets[d], clock)}
             IN  /\ tasks' = (tasks \ {beat})
                        \cup {Task("monitor_all_datasets", NULL, 0, clock + beat_schedule)}
                        \cup {Task("monitor_dataset", d, Count + 1, NONE) : d \in dispatched}
                 /\ log' = [op |-> "monitor_all_datasets", n |-> Count + 1,
                            now |-> clock, before |-> datasets,
                            started |-> dispatched]
    /\ UNCHANGED <<snapshots, diffs, seen, lastRun, lastReview, runs, reviews,
                   datasets, spatial_checks, QUALITY_CHECK_STATUS, clock>>

\* A worker takes a monitor_dataset task: async_monitor_dataset reads the
\* dataset, returns "skipped" if it is not active and calls the engine
\* otherwise.  Nothing is tested but is_active.
monitor_dataset(task) ==
    /\ task.kind = "monitor_dataset"
    /\ runs < MaxRuns
    /\ LET d == task.dataset_id
       IN  IF datasets[d].is_active
           THEN /\ tasks' = (tasks \ {task})
                       \cup {Task("async_monitor_dataset", d, task.id, NONE)}
                /\ runs' = runs + 1
                /\ log' = [op |-> "monitor_dataset", n |-> Count,
                           dataset_id |-> d, status |-> "started"]
           ELSE /\ tasks' = tasks \ {task}
                /\ runs' = runs
                /\ log' = [op |-> "monitor_dataset", n |-> Count,
                           dataset_id |-> d, status |-> "skipped"]
    /\ UNCHANGED <<snapshots, diffs, seen, lastRun, lastReview, reviews,
                   datasets, spatial_checks, QUALITY_CHECK_STATUS, clock>>

\* The engine returns to async_monitor_dataset: the run has read the
\* existing snapshots and committed or rolled back, and the task sets
\* last_check_at and the connection status and commits.
async_monitor_dataset(task) ==
    /\ task.kind = "async_monitor_dataset"
    /\ \E input \in RunInputs, order \in OrdersOf(snapshots), d \in {task.dataset_id} :
       \E response \in {Monitored(snapshots, diffs, d, input, order[d])} :
              /\ snapshots' = response.snaps
              /\ diffs' = response.diffs
              /\ datasets' = [datasets EXCEPT
                                ![d] = Checked(datasets[d], response.status, clock)]
              /\ log' = [op |-> "async_monitor_dataset", n |-> Count,
                         dataset_id |-> d, status |-> response.status,
                         now |-> clock]
    /\ tasks' = tasks \ {task}
    /\ UNCHANGED <<seen, lastRun, lastReview, runs, reviews,
                   spatial_checks, QUALITY_CHECK_STATUS, clock>>

\* POST /datasets/{dataset_id}/import, up to the call of the engine: 400 if
\* the dataset is not active.  Nothing else is tested.
import_geometries(dataset_id) ==
    /\ Count < MaxTicks
    /\ runs < MaxRuns
    /\ IF datasets[dataset_id].is_active
       THEN /\ tasks' = tasks
                   \cup {Task("import_geometries", dataset_id, Count + 1, NONE)}
            /\ runs' = runs + 1
            /\ log' = [op |-> "import_geometries", n |-> Count + 1,
                       dataset_id |-> dataset_id, status |-> "started"]
       ELSE /\ tasks' = tasks
            /\ runs' = runs
            /\ log' = [op |-> "import_geometries", n |-> Count + 1,
                       dataset_id |-> dataset_id, status |-> "400"]
    /\ UNCHANGED <<snapshots, diffs, seen, lastRun, lastReview, reviews,
                   datasets, spatial_checks, QUALITY_CHECK_STATUS, clock>>

\* The engine returns to import_geometries: last_check_at is set and the
\* response returned.
import_geometries_returns(task) ==
    /\ task.kind = "import_geometries"
    /\ \E input \in RunInputs, order \in OrdersOf(snapshots), d \in {task.dataset_id} :
       \E response \in {Monitored(snapshots, diffs, d, input, order[d])} :
              /\ snapshots' = response.snaps
              /\ diffs' = response.diffs
              /\ datasets' = [datasets EXCEPT ![d].last_check_at = clock]
              /\ log' = [op |-> "import_geometries_returns", n |-> Count,
                         dataset_id |-> d, status |-> response.status]
    /\ tasks' = tasks \ {task}
    /\ UNCHANGED <<seen, lastRun, lastReview, runs, reviews,
                   spatial_checks, QUALITY_CHECK_STATUS, clock>>

\* Mutant: the cycle ends at the first run that fails.
RECURSIVE ChangeCycle_EndsOnFailure(_, _, _, _, _)
ChangeCycle_EndsOnFailure(st, input, order, now, i) ==
    IF i > Len(DatasetOrder) \/ st.failed # {} THEN st
    ELSE LET d == DatasetOrder[i]
             response == Monitored(st.snaps, st.diffs, d, input[d], order[d])
         IN  IF datasets[d].is_active /\ should_check(datasets[d], now)
             THEN ChangeCycle_EndsOnFailure(
                              [snaps |-> response.snaps,
                               diffs |-> response.diffs,
                               datasets |-> [st.datasets EXCEPT
                                   ![d] = Checked(st.datasets[d], response.status, now)],
                               monitored |-> st.monitored \cup {d},
                               failed |-> IF response.status = "FAILED"
                                          THEN st.failed \cup {d} ELSE st.failed],
                              input, order, now, i + 1)
             ELSE ChangeCycle_EndsOnFailure(st, input, order, now, i + 1)

\* The loop of DevelopmentWorker._monitor_dataset_changes over the active
\* datasets of the query, from DatasetOrder[i] on: a dataset whose check is
\* due at now is run in a session of its own and then marked as checked.
RECURSIVE ChangeCycle(_, _, _, _, _)
ChangeCycle(st, input, order, now, i) ==
    IF i > Len(DatasetOrder) THEN st
    ELSE LET d == DatasetOrder[i]
             response == Monitored(st.snaps, st.diffs, d, input[d], order[d])
         IN  IF datasets[d].is_active /\ should_check(datasets[d], now)
             THEN ChangeCycle([snaps |-> response.snaps,
                               diffs |-> response.diffs,
                               datasets |-> [st.datasets EXCEPT
                                   ![d] = Checked(st.datasets[d], response.status, now)],
                               monitored |-> st.monitored \cup {d},
                               failed |-> IF response.status = "FAILED"
                                          THEN st.failed \cup {d} ELSE st.failed],
                              input, order, now, i + 1)
             ELSE ChangeCycle(st, input, order, now, i + 1)

\* DevelopmentWorker._monitor_dataset_changes, one cycle of the change
\* detection loop; the loop then sleeps change_detection_interval.
_monitor_dataset_changes ==
    /\ Count < MaxTicks
    /\ \E loop \in tasks :
          /\ loop.kind = "_change_detection_loop"
          /\ clock >= loop.due
          /\ tasks' = (tasks \ {loop})
                \cup {Task("_change_detection_loop", NULL, 0,
                           clock + change_detection_interval)}
    /\ \E input \in [Datasets -> RunInputs], order \in OrdersOf(snapshots) :
       \E st \in {ChangeCycle([snaps |-> snapshots, diffs |-> diffs,
                                datasets |-> datasets, monitored |-> {},
                                failed |-> {}],
                               input, order, clock, 1)} :
              /\ snapshots' = st.snaps
              /\ diffs' = st.diffs
              /\ datasets' = st.datasets
              /\ log' = [op |-> "_monitor_dataset_changes", n |-> Count + 1,
                         now |-> clock, before |-> datasets,
                         started |-> st.monitored, failed |-> st.failed]
    /\ UNCHANGED <<seen, lastRun, lastReview, runs, reviews,
                   spatial_checks, QUALITY_CHECK_STATUS, clock>>

\* DELETE /datasets/{dataset_id}: the dataset is deactivated.
delete_dataset(dataset_id) ==
    /\ Count < MaxTicks
    /\ datasets[dataset_id].is_active
    /\ datasets' = [datasets EXCEPT ![dataset_id].is_active = FALSE]
    /\ log' = [op |-> "delete_dataset", n |-> Count + 1,
               dataset_id |-> dataset_id]
    /\ UNCHANGED <<snapshots, diffs, seen, lastRun, lastReview, runs, reviews,
                   spatial_checks, QUALITY_CHECK_STATUS, tasks, clock>>

\* The service with two registered datasets and nothing stored; the worker
\* deployed is Celery with its beat schedule, or the development worker
\* with its change detection loop.
InitScheduler ==
    /\ snapshots = <<>>
    /\ diffs = <<>>
    /\ seen = [d \in Datasets |-> {}]
    /\ lastRun = NoRun
    /\ lastReview = NoReview
    /\ runs = 0
    /\ reviews = 0
    /\ datasets = [d \in Datasets |-> Dataset(CheckInterval)]
    /\ spatial_checks = <<>>
    /\ QUALITY_CHECK_STATUS = [d \in Datasets |-> NoEntry]
    /\ \E worker \in {"monitor_all_datasets", "_change_detection_loop"} :
          tasks = {Task(worker, NULL, 0, 1)}
    /\ clock = 1
    /\ log = NoLog

NextScheduler ==
    \/ monitor_all_datasets
    \/ \E task \in tasks : monitor_dataset(task)
    \/ \E task \in tasks : async_monitor_dataset(task)
    \/ \E d \in Datasets : import_geometries(d)
    \/ \E task \in tasks : import_geometries_returns(task)
    \/ _monitor_dataset_changes
    \/ \E d \in Datasets : delete_dataset(d)
    \/ (clock < MaxSchedulerTime /\ Elapse(1))

SpecScheduler == InitScheduler /\ [][NextScheduler]_vars

\* ------------------------------------------- the scheduler, step by step
\* The datasets a cycle of the development worker has listed and not yet
\* reached.  The rows are those of the query at the start of the cycle (the
\* session does not expire them on commit) and now is taken once, so which
\* of them are run is settled when the cycle lists them.
Listed == {task \in tasks : task.kind = "_monitor_dataset_changes"}

\* The loop sleeps change_detection_interval once the cycle is over.
NextCycle(listed) ==
    IF listed = {}
    THEN {Task("_change_detection_loop", NULL, 0, clock + change_detection_interval)}
    ELSE {}

\* DevelopmentWorker._monitor_dataset_changes up to its loop: the query for
\* the active datasets, and now.
_monitor_dataset_changes_lists ==
    /\ Count < MaxTicks
    /\ \E loop \in tasks :
          /\ loop.kind = "_change_detection_loop"
          /\ clock >= loop.due
          /\ \E listed \in {{Task("_monitor_dataset_changes", DatasetOrder[i], i, clock) :
                              i \in {j \in 1..Len(DatasetOrder) :
                                       /\ datasets[DatasetOrder[j]].is_active
                                       /\ should_check(datasets[DatasetOrder[j]], clock)}}} :
                /\ tasks' = (tasks \ {loop}) \cup listed \cup NextCycle(listed)
                /\ log' = [op |-> "_monitor_dataset_changes_lists", n |-> Count + 1,
                           started |-> {task.dataset_id : task \in listed}]
    /\ UNCHANGED <<snapshots, diffs, seen, lastRun, lastReview, runs, reviews,
                   datasets, spatial_checks, QUALITY_CHECK_STATUS, clock>>

\* The loop reaches the next listed dataset: the engine is run for it in a
\* session of its own, and last_check_at and the connection status of the
\* listed row are set and committed.  The row is not read again.
_monitor_dataset_changes_reaches(task) ==
    /\ task \in Listed
    /\ \A other \in Listed : task.id <= other.id
    /\ \E input \in RunInputs, order \in OrdersOf(snapshots), d \in {task.dataset_id} :
       \E response \in {Monitored(snapshots, diffs, d, input, order[d])} :
              /\ snapshots' = response.snaps
              /\ diffs' = response.diffs
              /\ datasets' = [datasets EXCEPT
                                ![d] = Checked(datasets[d], response.status, clock)]
              /\ log' = [op |-> "_monitor_dataset_changes_reaches", n |-> Count,
                         dataset_id |-> d, status |-> response.status,
                         is_active |-> datasets[d].is_active]
    /\ tasks' = (tasks \ {task}) \cup NextCycle(Listed \ {task})
    /\ UNCHANGED <<seen, lastRun, lastReview, runs, reviews,
                   spatial_checks, QUALITY_CHECK_STATUS, clock>>

NextSchedulerSteps ==
    \/ monitor_all_datasets
    \/ \E task \in tasks : monitor_dataset(task)
    \/ \E task \in tasks : async_monitor_dataset(task)
    \/ _monitor_dataset_changes_lists
    \/ \E task \in tasks : _monitor_dataset_changes_reaches(task)
    \/ \E d \in Datasets : delete_dataset(d)
    \/ (clock < MaxSchedulerTime /\ Elapse(1))

SpecSchedulerSteps == InitScheduler /\ [][NextSchedulerSteps]_vars

\* ------------------------------------------------- the paths of one run
\* Where a run may raise: nowhere, in asyncpg.connect, in the remote fetch,
\* or in the commit at the end.
FailurePoints == {"none", "connect", "fetch", "commit"}

\* Mutant: the connection is closed at the end of the try, not in a finally.
external_conn_NoFinally(fails_at) ==
    IF fails_at = "connect" THEN <<>>
    ELSE IF fails_at = "none" THEN <<"connect", "close">>
    ELSE <<"connect">>

\* The remote connection of a run.  asyncpg.connect is called once, before
\* the inner try; once it has returned, the finally of the inner try closes
\* the connection however the try is left.
external_conn(fails_at) ==
    IF fails_at = "connect" THEN <<>>
    ELSE <<"connect", "close">>

\* self.db.rollback() in the middle of a run: what the run has added and
\* flushed so far is gone, the counters of the response are not touched.
RolledBack(st, snaps, dfs) ==
    [st EXCEPT !.snaps = snaps, !.diffs = dfs]

\* The session when the loop reaches row f.
SessionAtRow(snaps, dfs, dataset_id, rows, order, f) ==
    LET existing == _get_existing_snapshots(snaps, dataset_id)
    IN  ProcessRows(Session(snaps, dfs), dataset_id, SubSeq(rows, 1, f - 1), 1,
                    existing, order, existing = {})

\* The first flush of row f violates the dimension constraint of the
\* geometry column: the row is one that adds a snapshot.
ViolatesConstraint(snaps, dfs, dataset_id, rows, order, f) ==
    /\ f \in 1..Len(rows)
    /\ LET existing == _get_existing_snapshots(snaps, dataset_id)
           st == SessionAtRow(snaps, dfs, dataset_id, rows, order, f)
       IN  /\ ~st.raised
           /\ Len(ProcessRow(st, dataset_id, rows[f], existing, order,
                             existing = {}).snaps) > Len(st.snaps)

\* The run between the remote read and the commit when the first flush of
\* row f raises the constraint violation: the handler rolls the session
\* back, _ensure_mixed_dimension_support drops the constraints and commits,
\* the snapshot is created again and the loop goes on with the next row.
RunBodyRepairing(snaps, dfs, dataset_id, rows, order, f) ==
    LET existing == _get_existing_snapshots(snaps, dataset_id)
        is_baseline_run == existing = {}
        st0 == SessionAtRow(snaps, dfs, dataset_id, rows, order, f)
        st1 == ProcessRows(RolledBack(st0, snaps, dfs), dataset_id, rows, f,
                           existing, order, is_baseline_run)
    IN  IF st1.raised \/ is_baseline_run THEN st1
        ELSE DeletionPass(st1, dataset_id,
                          CompositeHashes(existing) \ current_hashes(rows), order)

\* The rest of the loop after the retry of a row has failed and the handler
\* has gone on with "continue": no rollback() follows the failed flush, so
\* the session is inactive and its next execute, flush or commit raises an
\* error that carries the text of the retry's error.  An unchanged row is
\* skipped; the pending-diff query of a problematic changed row raises into
\* the outer handler; the flush of any other row raises inside the row's
\* try, where either the text counts as a constraint violation (matches),
\* the session is rolled back and the loop goes on as usual, or the row is
\* skipped; at the end of the rows the commit raises.
RECURSIVE ProcessRowsInactive(_, _, _, _, _, _, _, _)
ProcessRowsInactive(st, dataset_id, rows, i, existing, order, is_baseline_run, matches) ==
    IF i > Len(rows) THEN [st EXCEPT !.raised = TRUE]
    ELSE LET composite_hash ==
                 compute_composite_hash(rows[i].geometry_hash, rows[i].attributes_hash)
             is_new_geometry == composite_hash \notin CompositeHashes(existing)
             queries == /\ ~is_baseline_run
                        /\ is_new_geometry
                        /\ _is_geometry_problematic(external_query(rows[i].geometry_hash))
             flushes == is_baseline_run \/ is_new_geometry
         IN  IF queries THEN [st EXCEPT !.raised = TRUE]
             ELSE IF flushes /\ matches
             THEN ProcessRows(st, dataset_id, rows, i, existing, order, is_baseline_run)
             ELSE ProcessRowsInactive(st, dataset_id, rows, i + 1, existing, order,
                                      is_baseline_run, matches)

\* The run between the remote read and the commit when the first flush of
\* row f raises the constraint violation and the retry after the repair
\* raises as well: the row is given up and the loop goes on.
RunBodyRetryFails(snaps, dfs, dataset_id, rows, order, f, matches) ==
    LET existing == _get_existing_snapshots(snaps, dataset_id)
        is_baseline_run == existing = {}
        st0 == SessionAtRow(snaps, dfs, dataset_id, rows, order, f)
        st1 == ProcessRowsInactive(RolledBack(st0, snaps, dfs), dataset_id, rows,
                                   f + 1, existing, order, is_baseline_run, matches)
    IN  IF st1.raised \/ is_baseline_run THEN st1
        ELSE DeletionPass(st1, dataset_id,
                          CompositeHashes(existing) \ current_hashes(rows), order)

\* The dimension constraints of geometry_snapshots are in place until a run
\* has dropped them.
ConstraintsInPlace == log.op # "_ensure_mixed_dimension_support"

\* GeometryService.monitor_dataset_changes(dataset), every path of it:
\* fails_at is where the run raises, f the row whose flush violates the
\* dimension constraint (0: none does), repair what
\* _ensure_mixed_dimension_support comes to, retry what the second flush of
\* the row comes to: "ok", or an error whose text names a check constraint
\* ("constraint") or does not ("other").
monitor_dataset_changes(d) ==
    /\ runs < MaxRuns
    /\ \E t \in TablesOf(d), fails_at \in FailurePoints, f \in 0..MaxRows,
          repair \in {"dropped", "raises"}, retry \in {"ok", "constraint", "other"} :
       \E order \in ResultOrders(_get_existing_snapshots(snapshots, d)),
          rows \in {external_rows(t)},
          read \in {fails_at \notin {"connect", "fetch"}} :
          /\ ~read => t = EmptyTable
          /\ \E violation \in {/\ read
                               /\ ConstraintsInPlace
                               /\ ViolatesConstraint(snapshots, diffs, d, rows, order, f)} :
                /\ ~violation => (f = 0 /\ repair = "dropped")
                /\ (~violation \/ repair = "raises") => retry = "ok"
                /\ \E st \in {IF violation /\ retry = "ok"
                              THEN RunBodyRepairing(snapshots, diffs, d, rows, order, f)
                              ELSE IF violation
                              THEN RunBodyRetryFails(snapshots, diffs, d, rows, order, f,
                                                     retry = "constraint")
                              ELSE RunBody(snapshots, diffs, d, rows, order)} :
                   \E committed \in {/\ read
                                     /\ ~st.raised
                                     /\ fails_at # "commit"
                                     /\ violation => repair = "dropped"} :
                      /\ snapshots' = IF committed THEN st.snaps ELSE snapshots
                      /\ diffs' = IF committed THEN st.diffs ELSE diffs
                      /\ lastRun' = [op |-> "monitor_dataset_changes",
                                     status |-> IF committed THEN "SUCCESS" ELSE "FAILED",
                                     dataset_id |-> d,
                                     snapshots_before |-> snapshots,
                                     diffs_before |-> diffs,
                                     snapshots_created |->
                                         IF committed THEN st.snapshots_created ELSE 0,
                                     diffs_detected |->
                                         IF committed THEN st.diffs_detected ELSE 0,
                                     violation |-> violation,
                                     retry_failed |-> violation /\ retry # "ok",
                                     external_conn |-> external_conn(fails_at)]
                      /\ log' = IF violation /\ repair = "dropped"
                                THEN [op |-> "_ensure_mixed_dimension_support",
                                      n |-> Count + 1]
                                ELSE log
    /\ runs' = runs + 1
    /\ UNCHANGED <<seen, lastReview, reviews, datasets, spatial_checks,
                   QUALITY_CHECK_STATUS, tasks, clock>>

\* GeometryService.run_quality_checks(dataset), every path of it.
quality_checks_run(d) ==
    /\ runs < MaxRuns
    /\ \E t \in QualityTables, fails_at \in FailurePoints :
          /\ fails_at \in {"connect", "fetch"} => t = EmptyTable
          /\ spatial_checks' =
                run_quality_checks(spatial_checks, snapshots, d, external_rows(t),
                                   IF fails_at = "none" THEN "results" ELSE "error")
          /\ lastRun' = [op |-> "run_quality_checks",
                         status |-> IF fails_at = "none" THEN "results" ELSE "error",
                         dataset_id |-> d,
                         external_conn |-> external_conn(fails_at)]
    /\ runs' = runs + 1
    /\ UNCHANGED <<snapshots, diffs, seen, lastReview, reviews, datasets,
                   QUALITY_CHECK_STATUS, tasks, clock, log>>

NextPaths ==
    \/ \E d \in Datasets : monitor_dataset_changes(d)
    \/ \E d \in Datasets : quality_checks_run(d)

SpecPaths == Init /\ [][NextPaths]_vars

\* ------------------------------------------------------- scoring one row
\* The rows the remote query may return for one feature: polygons and
\* lines of every validity, size and point count, and points, which have
\* no area or length and zero points (empty) or one.
ScoredRows ==
    {Scalars(valid, simple, type, area, length, npoints, maxc) :
        valid \in BOOLEAN, simple \in BOOLEAN,
        type \in {"ST_Polygon", "ST_LineString", "ST_Point"},
        area \in {0, 1}, length \in {0, 4},
        npoints \in {0, 1, 2, 5}, maxc \in {1, 30000000}}

FetchedRows ==
    {row \in ScoredRows :
        /\ IsLineType(row.geom_type) => row.geom_area = 0
        /\ IsPointType(row.geom_type) =>
              /\ row.is_valid /\ row.is_simple
              /\ row.geom_area = 0 /\ row.geom_length = 0
              /\ row.num_points <= 1}

\* A row has been fetched and is about to be scored.
InitScorer ==
    /\ snapshots = <<>>
    /\ diffs = <<>>
    /\ seen = [d \in Datasets |-> {}]
    /\ lastRun = NoRun
    /\ lastReview = NoReview
    /\ runs = 0
    /\ reviews = 0
    /\ datasets = [d \in Datasets |-> Dataset(CheckInterval)]
    /\ spatial_checks = <<>>
    /\ QUALITY_CHECK_STATUS = [d \in Datasets |-> NoEntry]
    /\ tasks = {}
    /\ clock = 1
    /\ \E row \in FetchedRows : log = [op |-> "fetched", row |-> row]

\* self._is_geometry_problematic(row) on the fetched row, and the score
\* _calculate_confidence_score gives it.
ScoreRow ==
    /\ log.op = "fetched"
    /\ log' = [op |-> "_is_geometry_problematic", row |-> log.row,
               confidence |-> _calculate_confidence_score(log.row),
               problematic |-> _is_geometry_problematic(log.row)]
    /\ UNCHANGED <<snapshots, diffs, seen, lastRun, lastReview, runs, reviews,
                   datasets, spatial_checks, QUALITY_CHECK_STATUS, tasks, clock>>

NextScorer == ScoreRow

SpecScorer == InitScorer /\ [][NextScorer]_vars

Next ==
    \/ \E d \in Datasets : MonitorSucceeds(d)
    \/ \E d \in Datasets : MonitorFails(d)

Spec == Init /\ [][Next]_vars

\* ------------------------------------------------------------- properties
\* What the most recent run, if it committed, found and added.
Succeeded == lastRun.status = "SUCCESS"

PriorSnapshots ==
    {s \in Range(lastRun.snapshots_before) : s.dataset_id = lastRun.dataset_id}

PriorHashes == {s.composite_hash : s \in PriorSnapshots}

ChangeDetectionRun == Succeeded /\ PriorSnapshots # {}

BaselineRun == Succeeded /\ PriorSnapshots = {}

NewSnapshots ==
    {snapshots[i] : i \in (Len(lastRun.snapshots_before) + 1)..Len(snapshots)}

NewDiffs == {diffs[i] : i \in (Len(lastRun.diffs_before) + 1)..Len(diffs)}

KindHash(k) ==
    <<RowKinds[k].geometry_hash, RowKinds[k].attributes_hash>>

TableHashes(t) == {KindHash(k) : k \in {j \in KindIds : t[j] > 0}}

\* The geometry_hash a diff is about: that of its new snapshot, or of its old
\* snapshot when it has no new one.
DiffGeometry(x) ==
    IF x.new_snapshot_id # NONE
    THEN snapshots[x.new_snapshot_id].geometry_hash
    ELSE snapshots[x.old_snapshot_id].geometry_hash

SnapshotsOf(set, d, c) == {s \in set : s.dataset_id = d /\ s.composite_hash = c}

\* The NEW or UPDATED diffs of a set whose new snapshot has composite hash c.
ChangeDiffsOf(set, c) ==
    {x \in set : /\ x.diff_type \in {"NEW", "UPDATED"}
                 /\ x.new_snapshot_id # NONE
                 /\ snapshots[x.new_snapshot_id].composite_hash = c}

\* The run before the most recent one, for the same dataset, was a baseline
\* run that read table t.
AfterBaselineOn(t) == lastRun.previous = {[table |-> t, baseline |-> TRUE]}

\* The table the most recent run read is the table its dataset's previous
\* successful run read.
SourceUnchanged == \E p \in lastRun.previous : p.table = lastRun.table

\* C1: if the source table is unchanged between two consecutive successful
\* runs of a dataset, the second run creates no snapshot and no diff.
C1_Idempotent ==
    (Succeeded /\ SourceUnchanged) => (NewSnapshots = {} /\ NewDiffs = {})

C2_WitnessEmpty ==
    /\ BaselineRun
    /\ lastRun.table = EmptyTable
    /\ lastRun.previous # {}
    /\ SourceUnchanged

\* C3: no run creates a diff for a dataset and geometry_hash while a PENDING
\* diff for the same dataset and geometry_hash exists, so there is at most
\* one PENDING diff per (dataset_id, geometry_hash).
C3_NoDiffWhilePending ==
    /\ Succeeded =>
          \A x \in NewDiffs : \A y \in Range(lastRun.diffs_before) :
              (y.status = "PENDING" /\ y.dataset_id = x.dataset_id)
                  => DiffGeometry(y) # DiffGeometry(x)
    /\ \A i, j \in 1..Len(diffs) :
          (/\ i < j
           /\ diffs[i].status = "PENDING"
           /\ diffs[j].status = "PENDING"
           /\ diffs[i].dataset_id = diffs[j].dataset_id)
              => DiffGeometry(diffs[i]) # DiffGeometry(diffs[j])

\* C4: every stored diff is NEW with only a new snapshot, UPDATED with both,
\* or DELETED with only an old snapshot.
C4_DiffShape ==
    \A x \in Range(diffs) :
        \/ /\ x.diff_type = "NEW"
           /\ x.old_snapshot_id = NONE
           /\ x.new_snapshot_id # NONE
        \/ /\ x.diff_type = "UPDATED"
           /\ x.old_snapshot_id # NONE
           /\ x.new_snapshot_id # NONE
        \/ /\ x.diff_type = "DELETED"
           /\ x.old_snapshot_id # NONE
           /\ x.new_snapshot_id = NONE

\* C4 witness: the store holds a diff of each type.
C4_Witness ==
    \A type \in {"NEW", "UPDATED", "DELETED"} :
        \E x \in Range(diffs) : x.diff_type = type

\* The kinds of row the most recent run read whose composite hash no prior
\* snapshot of the dataset has.
ChangedKinds ==
    {k \in KindIds : lastRun.table[k] > 0 /\ KindHash(k) \notin PriorHashes}

Problematic(k) == _is_geometry_problematic(external_query(RowKinds[k].geometry_hash))

Score(k) == _calculate_confidence_score(external_query(RowKinds[k].geometry_hash))

PendingBefore(d, g) ==
    \E y \in Range(lastRun.diffs_before) :
        /\ y.status = "PENDING"
        /\ y.dataset_id = d
        /\ DiffGeometry(y) = g

\* C5: on a change-detection run a changed row that is not problematic gets
\* a snapshot but no NEW or UPDATED diff.
C5_NoDiffBelowThreshold ==
    ChangeDetectionRun =>
        \A k \in ChangedKinds :
            ~Problematic(k) =>
                /\ SnapshotsOf(NewSnapshots, lastRun.dataset_id, KindHash(k)) # {}
                /\ ChangeDiffsOf(NewDiffs, KindHash(k)) = {}

\* C6: on a change-detection run a changed problematic row with no PENDING
\* diff for its geometry_hash gets exactly one snapshot and one NEW or
\* UPDATED diff, carrying the scorer's output.
C6_ProblematicFlagged ==
    ChangeDetectionRun =>
        \A k \in ChangedKinds :
            (/\ Problematic(k)
             /\ ~PendingBefore(lastRun.dataset_id, RowKinds[k].geometry_hash))
                => /\ Cardinality(SnapshotsOf(NewSnapshots, lastRun.dataset_id,
                                              KindHash(k))) = lastRun.table[k]
                   /\ Cardinality(ChangeDiffsOf(NewDiffs, KindHash(k)))
                          = lastRun.table[k]
                   /\ \A x \in ChangeDiffsOf(NewDiffs, KindHash(k)) :
                          x.confidence_score = Score(k)

\* Table t is table p with the attributes of exactly one row changed.
AttributeChange(p, t) ==
    \E k, j \in KindIds :
        /\ k # j
        /\ RowKinds[k].geometry_hash = RowKinds[j].geometry_hash
        /\ p[k] > 0
        /\ t = [p EXCEPT ![k] = @ - 1, ![j] = @ + 1]

\* The kind of the row of p whose attributes changed on the way to t.
ChangedFrom(p, t) == CHOOSE k \in KindIds : t[k] < p[k]

\* C7: after a baseline run, when the attributes of exactly one feature
\* change, the next run creates exactly one snapshot and exactly one diff:
\* UPDATED, geometry unchanged, attributes changed, the old snapshot being
\* the feature's baseline snapshot.
C7_AttributeUpdate ==
    \A p \in Tables :
        (Succeeded /\ AfterBaselineOn(p) /\ AttributeChange(p, lastRun.table))
            => /\ Cardinality(NewSnapshots) = 1
               /\ Cardinality(NewDiffs) = 1
               /\ \A x \in NewDiffs :
                      /\ x.diff_type = "UPDATED"
                      /\ ~x.geometry_changed
                      /\ x.attributes_changed
                      /\ x.old_snapshot_id # NONE
                      /\ snapshots[x.old_snapshot_id] \in PriorSnapshots
                      /\ snapshots[x.old_snapshot_id].composite_hash
                             = KindHash(ChangedFrom(p, lastRun.table))

\* The DELETED diffs of a set whose old snapshot has composite hash c.
DeletedDiffsOf(set, c) ==
    {x \in set : /\ x.diff_type = "DELETED"
                 /\ x.old_snapshot_id # NONE
                 /\ snapshots[x.old_snapshot_id].composite_hash = c}

\* C8: on a change-detection run every composite hash of a prior snapshot
\* that is absent from the rows read gets exactly one DELETED diff, which
\* references a prior snapshot of the dataset with that hash, has no new
\* snapshot and confidence 1.0; a hash still present gets none; and no
\* snapshot is created for a hash that is not among the rows read.
C8_Deletions ==
    ChangeDetectionRun =>
        /\ \A c \in PriorHashes \ TableHashes(lastRun.table) :
              /\ Cardinality(DeletedDiffsOf(NewDiffs, c)) = 1
              /\ \A x \in DeletedDiffsOf(NewDiffs, c) :
                    /\ snapshots[x.old_snapshot_id] \in PriorSnapshots
                    /\ x.dataset_id = lastRun.dataset_id
                    /\ x.new_snapshot_id = NONE
                    /\ x.confidence_score = 1000
        /\ \A x \in NewDiffs :
              x.diff_type = "DELETED"
                  => /\ x.old_snapshot_id # NONE
                     /\ snapshots[x.old_snapshot_id].composite_hash
                            \in PriorHashes \ TableHashes(lastRun.table)
        /\ \A s \in NewSnapshots : s.composite_hash \in TableHashes(lastRun.table)
        /\ TableHashes(lastRun.table) \subseteq PriorHashes => NewSnapshots = {}

\* C8 witness: a change-detection run that found one hash deleted and
\* another still present.
C8_Witness ==
    /\ ChangeDetectionRun
    /\ \E x \in NewDiffs : x.diff_type = "DELETED"
    /\ TableHashes(lastRun.table) \cap PriorHashes # {}

\* Table t is table p with one more row of a kind p already holds.
DuplicateInsert(p, t) ==
    \E k \in KindIds : p[k] > 0 /\ t = [p EXCEPT ![k] = @ + 1]

\* C9 as stated: after a baseline run, a second feature identical in
\* geometry and attributes to a snapshotted one gets one snapshot and one
\* diff in the next run.
C9_DuplicateFlagged ==
    \A p \in Tables :
        (Succeeded /\ AfterBaselineOn(p) /\ DuplicateInsert(p, lastRun.table))
            => (Cardinality(NewSnapshots) = 1 /\ Cardinality(NewDiffs) = 1)

\* C9 as amended: after a baseline run, when a second feature identical in
\* geometry and attributes to a snapshotted one is inserted and nothing else
\* changes, the next run creates no snapshot and no diff.
C9_DuplicateSkipped ==
    \A p \in Tables :
        (Succeeded /\ AfterBaselineOn(p) /\ DuplicateInsert(p, lastRun.table))
            => (NewSnapshots = {} /\ NewDiffs = {}
                /\ lastRun.snapshots_created = 0 /\ lastRun.diffs_detected = 0)

\* C9 witness: a run after a baseline run, on the baseline table plus a
\* duplicate row.
C9_Witness ==
    \E p \in Tables :
        Succeeded /\ AfterBaselineOn(p) /\ DuplicateInsert(p, lastRun.table)

\* The most recent review request failed.
ReviewFailed == lastReview.outcome \in {"400", "404"}

ReviewSucceeded == lastReview.outcome = "OK"

\* C10: a review changes a diff only from PENDING to ACCEPTED or REJECTED,
\* recording reviewer and time; a single review of a diff that is not PENDING
\* fails, a batch review naming a missing or non-PENDING diff fails, and a
\* failed review leaves every diff as it was.
C10_ReviewOnce ==
    /\ ReviewFailed => diffs = lastReview.before
    /\ (lastReview.outcome # "NONE") =>
          /\ Len(diffs) = Len(lastReview.before)
          /\ \A i \in 1..Len(diffs) :
                diffs[i] # lastReview.before[i] =>
                    /\ lastReview.before[i].status = "PENDING"
                    /\ diffs[i].status \in {"ACCEPTED", "REJECTED"}
                    /\ diffs[i].status = lastReview.status
                    /\ diffs[i].reviewed_by = lastReview.reviewed_by
                    /\ diffs[i].reviewed_at # NONE
                    /\ diffs[i] = [lastReview.before[i] EXCEPT
                                      !.status = diffs[i].status,
                                      !.reviewed_by = diffs[i].reviewed_by,
                                      !.reviewed_at = diffs[i].reviewed_at]
          /\ (\E n \in 1..Len(lastReview.diff_ids) :
                LET i == lastReview.diff_ids[n]
                IN  \/ i > Len(lastReview.before)
                    \/ lastReview.before[i].status # "PENDING")
                => ReviewFailed
    /\ ReviewSucceeded =>
          \A n \in 1..Len(lastReview.diff_ids) :
              diffs[lastReview.diff_ids[n]].status = lastReview.status

\* C10 witness: a review of a diff that an earlier review had accepted or
\* rejected was refused.
C10_Witness ==
    /\ ReviewFailed
    /\ \E n \in 1..Len(lastReview.diff_ids) :
          /\ lastReview.diff_ids[n] <= Len(diffs)
          /\ diffs[lastReview.diff_ids[n]].status \in {"ACCEPTED", "REJECTED"}

\* C11: a start request is refused when the dataset was never checked and
\* when its entry is running; a refused request changes neither the status
\* map nor the tasks; an accepted one has set the entry to running with
\* progress 0 of 0, phase initializing, and left the engine's task to run.
C11_StartRefusedOrRunning ==
    log.op = "start_quality_checks" =>
        LET d == log.dataset_id
            refused == log.outcome # "started"
        IN  /\ datasets[d].last_check_at = NONE => refused
            /\ log.status_before[d].status = "running" => refused
            /\ refused => /\ QUALITY_CHECK_STATUS = log.status_before
                          /\ tasks = log.tasks_before
            /\ ~refused =>
                 /\ QUALITY_CHECK_STATUS[d].status = "running"
                 /\ QUALITY_CHECK_STATUS[d].progress =
                      [current |-> 0, total |-> 0, phase |-> "initializing"]
                 /\ \A e \in Datasets \ {d} :
                      QUALITY_CHECK_STATUS[e] = log.status_before[e]
                 /\ \E task \in tasks \ log.tasks_before :
                      /\ task.kind = "run_quality_checks_background"
                      /\ task.dataset_id = d
                 /\ Cardinality(tasks \ log.tasks_before) = 1

\* C11 witness: a request was refused because the entry was running.
C11_Witness ==
    /\ log.op = "start_quality_checks"
    /\ log.outcome = "400"
    /\ datasets[log.dataset_id].last_check_at # NONE
    /\ log.status_before[log.dataset_id].status = "running"

\* C12: every accepted quality-check run leaves the running state: its
\* entry becomes completed or failed, and no entry stays running forever.
C12_RunningEnds ==
    \A d \in Datasets :
        (QUALITY_CHECK_STATUS[d].status = "running")
            ~> (QUALITY_CHECK_STATUS[d].status \in {"completed", "failed"})

QualityRun ==
    log.op \in {"run_quality_checks_background", "_run_quality_checks",
                "validate_dataset_topology"}

\* C14: after a quality-check run of a dataset the findings stored for the
\* dataset are exactly the findings the run produced: none of an earlier run
\* remain.
C14_FindingsOfLatestRun ==
    QualityRun => \A d \in log.ran : Findings(spatial_checks, d) = log.produced[d]

\* The monitoring data of dataset d: its snapshots, diffs and findings, and
\* its monitoring fields.
MonitoringData(tables, d) ==
    [snapshots |-> {x \in Range(tables.snapshots) : x.dataset_id = d},
     diffs |-> {x \in Range(tables.diffs) : x.dataset_id = d},
     spatial_checks |-> {x \in Range(tables.spatial_checks) : x.dataset_id = d},
     last_check_at |-> tables.datasets[d].last_check_at,
     connection_status |-> tables.datasets[d].connection_status,
     connection_error |-> tables.datasets[d].connection_error,
     last_connection_test |-> tables.datasets[d].last_connection_test]

\* The registration of dataset d: what a reset is to keep.
Registration(tables, d) ==
    [is_active |-> tables.datasets[d].is_active,
     check_interval_minutes |-> tables.datasets[d].check_interval_minutes]

\* C15: once the process has started, the finding, diff and snapshot stores
\* are empty and every dataset has last_check_at, connection_status,
\* connection_error and last_connection_test null, the registrations being
\* as they were.
C15_StartResetsMonitoring ==
    log.op = "init_db" =>
        /\ spatial_checks = <<>> /\ diffs = <<>> /\ snapshots = <<>>
        /\ \A d \in Datasets :
              /\ datasets[d].last_check_at = NONE
              /\ datasets[d].connection_status = NULL
              /\ datasets[d].connection_error = NULL
              /\ datasets[d].last_connection_test = NONE
              /\ Registration(Tables4, d) = Registration(log.before, d)

C17_RunsSerialised ==
    \A d \in Datasets : Cardinality(RunsInProgress(d)) <= 1

\* The ticks of the two workers.
TickOps == {"monitor_all_datasets", "_monitor_dataset_changes"}

\* The check of dataset row is due at minute t.
Due(row, t) ==
    row.last_check_at = NONE \/ t - row.last_check_at >= row.check_interval_minutes

\* The minutes from t on in which a dataset checked at t is not to be due.
Within(row, t) == t..(t + row.check_interval_minutes - 1)

\* C20: a tick starts a run for exactly the datasets that are active and
\* due (never checked, or checked at least check_interval_minutes ago), and
\* after a run of the scheduler the dataset is not due again before
\* check_interval_minutes have passed.
C20_TickRunsDueDatasets ==
    /\ log.op \in TickOps =>
          log.started = {d \in Datasets : /\ log.before[d].is_active
                                          /\ Due(log.before[d], log.now)}
    /\ log.op = "_monitor_dataset_changes" =>
          \A d \in log.started :
             \A t \in Within(datasets[d], log.now) : ~Due(datasets[d], t)
    /\ log.op = "async_monitor_dataset" =>
          \A t \in Within(datasets[log.dataset_id], log.now) :
             ~Due(datasets[log.dataset_id], t)

\* A tick that starts a run for one dataset and passes over an active
\* dataset checked less than check_interval_minutes before.
C20_Witness ==
    /\ log.op \in TickOps
    /\ log.started # {}
    /\ \E d \in Datasets \ log.started :
          /\ log.before[d].is_active
          /\ log.before[d].last_check_at # NONE
          /\ log.now - log.before[d].last_check_at < log.before[d].check_interval_minutes
    /\ \A d \in log.started : datasets[d].last_check_at = log.now
                              \/ log.op = "monitor_all_datasets"

\* C18: the snapshots and diffs a change-detection run has written are all
\* in the stores after a run that ends with SUCCESS, and none of them after
\* a run that ends with FAILED; the rows stored before the run are as they
\* were.
C18_RunCommitsAllOrNothing ==
    lastRun.status \in {"SUCCESS", "FAILED"} =>
        /\ SubSeq(snapshots, 1, Len(lastRun.snapshots_before)) = lastRun.snapshots_before
        /\ SubSeq(diffs, 1, Len(lastRun.diffs_before)) = lastRun.diffs_before
        /\ IF lastRun.status = "SUCCESS"
           THEN /\ Len(snapshots) = Len(lastRun.snapshots_before) + lastRun.snapshots_created
                /\ Len(diffs) = Len(lastRun.diffs_before) + lastRun.diffs_detected
           ELSE /\ snapshots = lastRun.snapshots_before
                /\ diffs = lastRun.diffs_before

\* The events e among the events of a connection.
Events(events, e) == Cardinality({i \in 1..Len(events) : events[i] = e})

\* C19: a change-detection run or quality-check run that has returned has
\* opened at most one remote connection and closed what it opened.
C19_OneConnectionClosed ==
    lastRun.status # "NONE" =>
        /\ Events(lastRun.external_conn, "connect") <= 1
        /\ Events(lastRun.external_conn, "close") = Events(lastRun.external_conn, "connect")

\* A run that raised after the connection was opened.
C19_Witness ==
    /\ lastRun.status \in {"FAILED", "error"}
    /\ Events(lastRun.external_conn, "connect") = 1
    /\ Events(lastRun.external_conn, "close") = 1

\* The prior snapshots of the run's dataset that have geometry_hash g.
PriorWithGeometry(g) == {s \in PriorSnapshots : s.geometry_hash = g}

\* C21: a NEW or UPDATED diff created by a change-detection run is NEW, with
\* geometry_changed, not attributes_changed and no old snapshot, exactly when
\* no prior snapshot of the dataset has the geometry_hash of the row, and
\* UPDATED, with attributes_changed, not geometry_changed and an old snapshot
\* that is a prior snapshot with that geometry_hash, exactly when one has.
C21_NewOrUpdated ==
    ChangeDetectionRun =>
        \A x \in NewDiffs :
            x.diff_type \in {"NEW", "UPDATED"} =>
                LET prior == PriorWithGeometry(DiffGeometry(x))
                IN  /\ (x.diff_type = "NEW") <=> (prior = {})
                    /\ x.diff_type = "NEW" =>
                          /\ x.geometry_changed
                          /\ ~x.attributes_changed
                          /\ x.old_snapshot_id = NONE
                    /\ x.diff_type = "UPDATED" =>
                          /\ ~x.geometry_changed
                          /\ x.attributes_changed
                          /\ x.old_snapshot_id \in {s.id : s \in prior}

\* A change-detection run that created an UPDATED diff, after a run that
\* created a NEW diff.
C21_Witness ==
    /\ ChangeDetectionRun
    /\ \E x \in NewDiffs : x.diff_type = "UPDATED"
    /\ \E x \in Range(lastRun.diffs_before) :
          x.diff_type = "NEW" /\ x.dataset_id = lastRun.dataset_id

\* C22: a successful run on a table in which no two rows share a composite
\* hash adds exactly one snapshot for every row whose composite hash no
\* prior snapshot of the dataset has, and none for every other row.
C22_OneSnapshotPerHash ==
    (Succeeded /\ \A k \in KindIds : lastRun.table[k] <= 1) =>
        \A k \in {j \in KindIds : lastRun.table[j] > 0} :
            Cardinality(SnapshotsOf(NewSnapshots, lastRun.dataset_id, KindHash(k)))
                = IF KindHash(k) \in PriorHashes THEN 0 ELSE 1

\* The connection fields of dataset row are those a run with this response
\* status leaves.
StatusRecorded(row, status) ==
    IF status = "FAILED"
    THEN row.connection_status = "failed" /\ row.connection_error # NULL
    ELSE row.connection_status = "success" /\ row.connection_error = NULL

\* C23: after a run that failed the dataset has connection_status failed and
\* a connection_error; a cycle of the worker in which a run failed has still
\* run every other active dataset that was due; after a run that succeeded
\* the dataset has connection_status success and no connection_error.
C23_FailureRecordedOthersRun ==
    /\ log.op = "_monitor_dataset_changes" =>
          /\ log.failed \subseteq log.started
          /\ log.started = {d \in Datasets : /\ log.before[d].is_active
                                             /\ Due(log.before[d], log.now)}
          /\ \A d \in log.started :
                StatusRecorded(datasets[d],
                               IF d \in log.failed THEN "FAILED" ELSE "SUCCESS")
    /\ log.op = "async_monitor_dataset" =>
          StatusRecorded(datasets[log.dataset_id], log.status)

\* A cycle in which the run of one dataset failed and the run of another,
\* whose run before had failed, succeeded.
C23_Witness ==
    /\ log.op = "_monitor_dataset_changes"
    /\ log.failed # {}
    /\ \E d \in log.started \ log.failed :
          /\ log.before[d].connection_status = "failed"
          /\ datasets[d].connection_status = "success"
          /\ datasets[d].connection_error = NULL

\* C24: a run in which the retry of an insert after the repair of the
\* dimension constraint has failed as well ends with status FAILED.
C24_FailedRetryAborts ==
    (lastRun.status \in {"SUCCESS", "FAILED"} /\ lastRun.retry_failed) =>
        lastRun.status = "FAILED"

\* C30: the snapshots_created and diffs_detected of a run that ended with
\* SUCCESS are the numbers of snapshots and diffs the run added to the stores.
C30_CountsAreRowsAdded ==
    (lastRun.status = "SUCCESS" /\ lastRun.op = "monitor_dataset_changes") =>
        /\ lastRun.snapshots_created = Len(snapshots) - Len(lastRun.snapshots_before)
        /\ lastRun.diffs_detected = Len(diffs) - Len(lastRun.diffs_before)

\* C25: a review that is committed changes only diffs that are PENDING: a
\* diff that was ACCEPTED or REJECTED before the commit has the same status
\* after it.
C25_StatusWrittenOnce ==
    lastReview.outcome = "OK" =>
        \A i \in 1..Len(lastReview.before) :
            lastReview.before[i].status \in {"ACCEPTED", "REJECTED"} =>
                diffs[i].status = lastReview.before[i].status

\* The quality-check runs of a dataset that are in progress: the background
\* tasks of accepted requests and the engine call of the worker's cycle.
QualityRunsInProgress(d) ==
    {task \in tasks : /\ task.dataset_id = d
                      /\ task.kind \in {"run_quality_checks_background",
                                        "_run_quality_checks"}}

\* C26: at no time are two quality-check runs of the same dataset in
\* progress.
C26_OneQualityRunPerDataset ==
    \A d \in Datasets : Cardinality(QualityRunsInProgress(d)) <= 1

\* A valid, simple, topologically clean Point of exactly one point, its
\* coordinates within bounds, with no size anomaly.
CleanPoint(row) ==
    /\ row.is_valid /\ row.is_simple /\ row.is_topologically_clean
    /\ IsPointType(row.geom_type)
    /\ row.num_points = 1
    /\ row.geom_area <= large_area_threshold
    /\ row.geom_length <= large_length_threshold
    /\ \A c \in Coords(row) : ~ExceedsBounds(c) /\ ~IsNanOrInf(c)

\* C27: a clean Point of one point scores the default confidence, which is
\* below the flagging threshold, and is not problematic.
C27_CleanPointDefault ==
    (log.op = "_is_geometry_problematic" /\ CleanPoint(log.row)) =>
        /\ log.confidence = default_confidence
        /\ log.confidence < problematic_geometry_confidence_threshold
        /\ ~log.problematic

\* C28: a dataset never checked before a cycle of the worker, whose run in
\* that cycle ended FAILED, still has no last_check_at after the cycle, and
\* a request to start quality checks for it is not accepted.
C28_CheckedOnlyAfterSuccess ==
    log.op = "_monitor_dataset_changes" =>
        \A d \in log.failed :
            log.before[d].last_check_at = NONE =>
                /\ datasets[d].last_check_at = NONE
                /\ start_quality_checks_outcome(d) # "started"

\* C29: a change-detection run that is started, by the worker's cycle or by
\* a monitor_dataset task, is for a dataset that is active at that moment.
C29_NoRunWhileInactive ==
    /\ log.op = "_monitor_dataset_changes_reaches" => log.is_active
    /\ (log.op = "monitor_dataset" /\ log.status = "started") =>
            datasets[log.dataset_id].is_active

====
